---- MODULE Spec2Model ----
(***************************************************************************)
(* A model of MyData's pipeline controller (FoldersController in           *)
(* src/mydata/controllers/folders.py) together with the threads that drive *)
(* it: the ScanDataDirs thread of MyData.OnRefresh, one                    *)
(* StartUploadsForFolder call per dataset folder, the verification and     *)
(* upload worker threads, the user pressing Stop, and the main (GUI)       *)
(* thread that dispatches the posted events to their handlers.             *)
(*                                                                         *)
(* Spec is the GUI run, wx.PyApp.IsMainLoopRunning() = True, in which the   *)
(* worker threads exist and tasks go through the queues. SpecInit is       *)
(* InitForUploads alone, over every setting and with or without the main   *)
(* loop.                                                                   *)
(***************************************************************************)
EXTENDS Integers, Sequences, FiniteSets, TLC

\* ---------------------------------------------------------------- bounds
NumFolders == 2
FilesPerFolder == 1
MaxUploadThreads == 2
MaxVerificationThreads == 1
MaxFaults == 1
MaxThreadsSetting == 4
MaxPosted == 3
MaxInstruments == 2
MaxFilesInDataset == 3
MaxStagedUploads == 3
MaxRuns == 2

Folders == 1..NumFolders
FileCounts == 0..FilesPerFolder

\* ------------------------------------------------------------- constants
\* UploadMethod values (controllers/uploads.py, used in folders.py).
HTTP_POST == "HTTP_POST"
VIA_STAGING == "VIA_STAGING"

\* Outcomes of SETTINGS.uploaderModel.RequestStagingAccess() followed by
\* reading SETTINGS.uploadToStagingRequest.
StagingOutcomes == {"raises", "absent", "approved", "pending"}

\* The message strings of the ShowMessageDialog events.
MsgStagingError == "str(err) of RequestStagingAccess"
MsgCouldntDetermine == "Couldn't determine whether uploads to staging have been approved.  Falling back to HTTP POST."
MsgApprovalRequired == "Uploads to MyTardis's staging area require approval from your MyTardis administrator. A request has been sent"
MsgExperimentError == "str(err) of GetOrCreateExperimentForFolder"
MsgDatasetError == "str(err) of CreateDatasetIfNecessary"

\* Status bar / final status strings.
StNone == "none"
StProgress == "progress"
StShuttingDown == "Shutting down upload threads..."
StNoFolders == "No folders were found to upload from."
StFailed == "Data scans and uploads failed."
StCanceled == "Data scans and uploads were canceled."
StCompletedWithFailed == "Data scans and uploads completed with N failed upload(s)."
StSuccess == "Data scans and uploads completed successfully."
StNoNewFiles == "No new files were found to upload."
StAppear == "Data scans and uploads appear to have completed successfully."
StInvalidFolderStructure == "str(ifs)"

\* ---------------------------------------------------------------- state
VARIABLES
    \* settings and application flags
    maxUploadThreads,          \* SETTINGS.advanced.maxUploadThreads
    maxVerificationThreads,    \* SETTINGS.miscellaneous.maxVerificationThreads
    testRunRunning,            \* app.threadSafeFlags['testRunRunning']
    mainLoopRunning,           \* wx.PyApp.IsMainLoopRunning()
    shouldAbort,               \* app.threadSafeFlags['shouldAbort']
    performingLookupsAndUploads,
    \* FoldersController fields
    testRun, started, canceled, failed, completed, shuttingDown,
    uploadMethod, numUploadWorkerThreads, numVerificationWorkerThreads,
    finishedScanningForDatasetFolders,
    finishedCountingVerifications,   \* folder -> "absent" | "unset" | "set"
    numVerificationsToBePerformed,
    uploadsAcknowledged,
    lastErrorMessage, statusMessage,
    verificationsQueue, uploadsQueue,
    \* threads
    verificationWorkers,       \* number of threads of the pool in each position
    uploadWorkers,
    scanPc,                    \* the ScanDataDirs thread
    stagingOutcome,            \* what RequestStagingAccess did in InitForUploads
    foldersCount,              \* foldersModel.GetCount()
    numFiles,                  \* folder -> folderModel.GetNumFiles()
    folderPc,                  \* folder -> position of its StartUploadsForFolder call
    experimentModel,           \* folder -> "unset" | "ok" | "None"
    datasetModel,              \* folder -> "unset" | "ok"
    mainPc,                    \* the main thread: idle, or inside ShutDownUploadThreads
    events,                    \* the events posted to the main thread, in order
    faults,                    \* user aborts, and calls, lookups and transfers that went wrong
    \* the models shown in the Verifications and Uploads views
    verification,              \* <<folder, dfi>> -> state of its VerifyTask
    upload,                    \* <<folder, dfi>> -> state of its upload task
    \* what has happened so far (history, read by no action)
    numCompletedPosted,        \* ShutdownUploads(completed=True) events posted
    startedAtCompletion,       \* folders whose call had started when completion was posted or set
    errorsPosted,              \* folder -> error message events posted by its call
    warningsPosted,            \* warning message events posted by InitForUploads
    initErrorsPosted,          \* error message events posted by InitForUploads
    shown,                     \* message dialogs shown
    \* the experiment lock and the server's experiment (SpecLock)
    expLock,                   \* the Lock object self.getOrCreateExpThreadingLock refers to
    lockHeld,                  \* Lock object -> is it locked
    callPc,                    \* folder -> position of its call in lines 465-481
    callLock,                  \* folder -> the Lock object its acquire() was called on
    callFound,                 \* folder -> did its lookup find the experiment
    experimentExists,          \* the shared experiment exists on the server
    createRequests,            \* create-experiment requests issued
    releaseRaised,             \* folder -> its release() raised (lock was not locked)
    \* history of the user's aborts
    abortIssued,               \* OnStop ran after InitForUploads, before the run's end
    \* history of the folders' calls
    registeredAfterError,      \* folder -> its call began after a lookup of another had raised
    \* the scp/ssh subprocesses of the staged uploads
    scpProcess,                \* task -> "none" | "running" | "exited" | "killed"
    swept,                     \* CleanUpScpAndSshProcesses has run in this shutdown
    launchedLate,              \* tasks whose subprocess was launched after shutdown began
    \* the cache of verified datafiles
    cacheClosed,               \* SETTINGS.CloseVerifiedDatafilesCache() was called
    \* the message dialogs (SpecDialog)
    showingErrorDialog,        \* self.showingErrorDialog.isSet()
    dialogStack,               \* the dialogs inside ShowModal(), the innermost last
    shownLog,                  \* <<run, message>> of every dialog shown, in order
    posted,                    \* ShowMessageDialog events posted so far
    \* InstrumentModel.RenameInstrument (SpecRename)
    facilityFound,             \* the loop of lines 91-95 found the facility
    oldInstrumentName, newInstrumentName,
    instruments,               \* instrument id -> its name on the server, or NoInstrument
    putRequests,               \* rename (PUT) requests issued
    renameResult,              \* "notCalled", "ok", or the exception raised
    \* FoldersModel.ScanFolders (SpecScan)
    folderStructure,           \* SETTINGS.advanced.folderStructure
    userDirs,                  \* the directories at the top of the data directory
    datasetDirs,               \* <<path below the data directory, number of files>>
    usersModel,                \* the user records of the scan
    foldersModel,              \* the Folder records of the scan: <<user, name, files>>
    scannedNumFiles,           \* the scan's total of files
    \* openssh.py UploadFileFromPosixSystem / UploadFileFromWindows (SpecMkdir)
    REMOTE_DIRS_CREATED,       \* the keys of the module's dict
    mkdirLog,                  \* <<remote directory, exit status>> of every mkdir issued
    scpLog,                    \* remote directory of every scp started
    uploadFileResult,          \* how the last call ended
    cancelCheck,               \* the last call's ShouldCancelUpload: its answer, or "notReached"
    finalProgressCalls,        \* calls of progressCallback(fileSize, fileSize) made
    \* openssh.py KeyPair (SpecKeyPair)
    privateKeyFile,            \* the file at privateKeyFilePath: its key, or NoFile
    publicKeyFile,             \* the file at privateKeyFilePath + ".pub": its text, or NoFile
    publicKeyFilePath,         \* self.publicKeyFilePath: "None" or "set"
    cachedPublicKey,           \* self._publicKey: "None" or the text read
    cachedFingerprint,         \* self._fingerprint: "None" or the private key it is of
    keyPairResult,             \* how the last call on the KeyPair ended
    \* MyData.py OnRefresh and its ScanDataDirs threads (SpecRefresh)
    scanThreadPc,              \* where each OnRefresh call and its ScanDataDirs thread is
    scanningFoldersThreadingLock, \* 0 when free, else the thread holding it
    scanningFolders,           \* threadSafeFlags['scanningFolders']
    workerThreadsOf,           \* the worker threads each call's InitForUploads started
    verificationWorkerThreads, \* whose threads the controller's lists hold, 0 for none
    shutdownForRefreshPosted,  \* a ShutdownForRefreshEvent was posted
    \* SettingsModel.py Validate / GetValidation (SpecValidate)
    instrument_name,           \* self.instrument_name
    data_directory,            \* self.data_directory
    contact_email,             \* self.contact_email
    validation,                \* self.validation
    validateReturned           \* what the last Validate() call returned

settingsVars == <<maxUploadThreads, maxVerificationThreads, testRunRunning,
                  mainLoopRunning>>
flagVars == <<testRun, started, canceled, failed, completed, shuttingDown>>
poolVars == <<uploadMethod, numUploadWorkerThreads, numVerificationWorkerThreads>>
countVars == <<finishedScanningForDatasetFolders, finishedCountingVerifications,
               numVerificationsToBePerformed, uploadsAcknowledged>>
folderVars == <<foldersCount, numFiles, folderPc, experimentModel, datasetModel>>
historyVars == <<numCompletedPosted, startedAtCompletion, errorsPosted,
                 warningsPosted, initErrorsPosted, shown>>

lockVars == <<expLock, lockHeld, callPc, callLock, callFound,
              experimentExists, createRequests, releaseRaised>>

\* The variables outside the controller's own fields: the experiment lock
\* (SpecLock), the subprocesses, and the history of aborts and lookup errors.
abortVars == <<abortIssued>>
fatalVars == <<registeredAfterError>>
scpVars == <<scpProcess, swept, launchedLate>>
dialogVars == <<showingErrorDialog, dialogStack, shownLog, posted>>
renameVars == <<facilityFound, oldInstrumentName, newInstrumentName,
                instruments, putRequests, renameResult>>
\* The variables of the specifications of single functions.
scanVars == <<folderStructure, userDirs, datasetDirs, usersModel,
              foldersModel, scannedNumFiles>>
mkdirVars == <<REMOTE_DIRS_CREATED, mkdirLog, scpLog, uploadFileResult,
               cancelCheck, finalProgressCalls>>
keyPairVars == <<privateKeyFile, publicKeyFile, publicKeyFilePath,
                 cachedPublicKey, cachedFingerprint, keyPairResult>>
refreshVars == <<scanThreadPc, scanningFoldersThreadingLock, scanningFolders,
                 workerThreadsOf, verificationWorkerThreads,
                 shutdownForRefreshPosted>>
validationVars == <<instrument_name, data_directory, contact_email,
                    validation, validateReturned>>
appVars == <<refreshVars, validationVars>>
utilVars == <<renameVars, scanVars, mkdirVars, keyPairVars, appVars>>
cacheVars == <<cacheClosed>>
auxVars == <<abortVars, fatalVars, scpVars, cacheVars, dialogVars, utilVars>>
sideVars == <<lockVars, auxVars>>

\* The variables of the pipeline controller (Spec).
controllerVars == <<maxUploadThreads, maxVerificationThreads, testRunRunning,
          mainLoopRunning, shouldAbort,
          performingLookupsAndUploads,
          testRun, started, canceled, failed, completed, shuttingDown,
          uploadMethod, numUploadWorkerThreads, numVerificationWorkerThreads,
          finishedScanningForDatasetFolders, finishedCountingVerifications,
          numVerificationsToBePerformed, uploadsAcknowledged,
          lastErrorMessage, statusMessage, verificationsQueue, uploadsQueue,
          verificationWorkers, uploadWorkers, scanPc, stagingOutcome,
          foldersCount, numFiles, folderPc, experimentModel, datasetModel,
          mainPc, events, faults, verification, upload,
          numCompletedPosted, startedAtCompletion, errorsPosted,
          warningsPosted, initErrorsPosted, shown>>

vars == <<controllerVars, sideVars>>

\* --------------------------------------------------------------- helpers
Tasks == Folders \X (1..FilesPerFolder)

\* The None that ShutDownUploadThreads puts on a queue to stop one worker.
Sentinel == <<0, 0>>

\* A worker pool: how many of its threads are blocked in queue.get(), are
\* inside task.Run(), or have returned. A thread that found IsShuttingDown()
\* false at the top of its loop is in queue.get().
NoThreads == [waiting |-> 0, busy |-> 0, returned |-> 0]
StartThreads(n) == [waiting |-> n, busy |-> 0, returned |-> 0]
Alive(pool) == pool.waiting + pool.busy
PoolSize(pool) == Alive(pool) + pool.returned

RECURSIVE Sentinels(_)
Sentinels_OneFewer(n) == IF n <= 1 THEN <<>> ELSE <<Sentinel>> \o Sentinels(n - 1)

Sentinels(n) == IF n = 0 THEN <<>> ELSE <<Sentinel>> \o Sentinels(n - 1)

\* The events posted with mde.PostEvent, named after the handler that
\* mde.NewEvent binds them to.
ICON_ERROR == "wx.ICON_ERROR"
ICON_WARNING == "wx.ICON_WARNING"
CountEvent == [handler |-> "CountCompletedUploadsAndVerifications",
               kind |-> "", icon |-> "", folder |-> 0, dfi |-> 0]
UploadDatafileEvent(f, i) == [handler |-> "UploadDatafile",
                              kind |-> "", icon |-> "", folder |-> f, dfi |-> i]
ShutdownUploadsEvent(k) == [handler |-> "ShutDownUploadThreads",
                            kind |-> k, icon |-> "", folder |-> 0, dfi |-> 0]
ShowMessageDialogEvent(msg, ic) == [handler |-> "ShowMessageDialog",
                                    kind |-> msg, icon |-> ic, folder |-> 0, dfi |-> 0]
\* MyData.py 504-511: the dialog ScanDataDirs hands to wx.CallAfter.
ScanErrorDialogEvent == [handler |-> "ScanErrorDialog", kind |-> "str(ifs)",
                         icon |-> ICON_ERROR, folder |-> 0, dfi |-> 0]

VerificationTerminal == {"FoundVerified", "NotFound", "Failed"}
UploadTerminal == {"Completed", "Failed", "Canceled"}

Count(states, set) == Cardinality({t \in Tasks : states[t] \in set})

\* The Lock objects: the one made by __init__ (line 66) and one per
\* InitForUploads (line 364).
LockObjects == 0..MaxRuns

\* ------------------------------------------------------------------ Init
\* The state after FoldersController.__init__ and MyData.__init__.
InitControllerAfter(faultsSoFar) ==
    /\ shouldAbort = FALSE
    /\ performingLookupsAndUploads = FALSE
    /\ testRun = FALSE
    /\ started = FALSE /\ canceled = FALSE /\ failed = FALSE
    /\ completed = FALSE /\ shuttingDown = FALSE
    /\ uploadMethod = HTTP_POST
    /\ numUploadWorkerThreads = 0
    /\ numVerificationWorkerThreads = 0
    /\ finishedScanningForDatasetFolders = FALSE
    /\ finishedCountingVerifications = [f \in Folders |-> "absent"]
    /\ numVerificationsToBePerformed = 0
    /\ uploadsAcknowledged = 0
    /\ lastErrorMessage = "None"
    /\ statusMessage = StNone
    /\ verificationsQueue = <<>>
    /\ uploadsQueue = <<>>
    /\ verificationWorkers = NoThreads
    /\ uploadWorkers = NoThreads
    /\ scanPc = "InitForUploads"
    /\ stagingOutcome = "none"
    /\ foldersCount = 0
    /\ numFiles = [f \in Folders |-> 0]
    /\ folderPc = [f \in Folders |-> "notStarted"]
    /\ experimentModel = [f \in Folders |-> "unset"]
    /\ datasetModel = [f \in Folders |-> "unset"]
    /\ mainPc = "idle"
    /\ events = <<>>
    /\ faults = faultsSoFar
    /\ verification = [t \in Tasks |-> "none"]
    /\ upload = [t \in Tasks |-> "none"]
    /\ numCompletedPosted = 0
    /\ startedAtCompletion = {}
    /\ errorsPosted = [f \in Folders |-> 0]
    /\ warningsPosted = 0
    /\ initErrorsPosted = 0
    /\ shown = 0
    /\ expLock = 0
    /\ lockHeld = [l \in LockObjects |-> FALSE]
    /\ callPc = [f \in Folders |-> "notStarted"]
    /\ callLock = [f \in Folders |-> 0]
    /\ callFound = [f \in Folders |-> FALSE]
    /\ experimentExists = FALSE
    /\ createRequests = 0
    /\ releaseRaised = [f \in Folders |-> FALSE]
    /\ abortIssued = FALSE
    /\ registeredAfterError = [f \in Folders |-> FALSE]
    /\ scpProcess = [t \in Tasks |-> "none"]
    /\ swept = FALSE
    /\ launchedLate = {}
    /\ cacheClosed = FALSE
    /\ showingErrorDialog = FALSE
    /\ dialogStack = <<>>
    /\ shownLog = <<>>
    /\ posted = 0

InitController == InitControllerAfter(0)

\* The instruments of the facility on the server, by id.
InstrumentIds == 1..MaxInstruments
NoInstrument == "no instrument"
InstrumentNames == {"Test Instrument", "Test Instrument2", "Renamed Instrument"}

\* No call of RenameInstrument is made.
InitRenameIdle ==
    /\ facilityFound = FALSE
    /\ oldInstrumentName = "Test Instrument"
    /\ newInstrumentName = "Test Instrument"
    /\ instruments = [id \in InstrumentIds |-> NoInstrument]
    /\ putRequests = 0
    /\ renameResult = "notCalled"

\* The folder-structure templates of the two scan tests.
UsernameExperimentDataset == "Username / Experiment / Dataset"
UsernameMyTardisExperimentDataset == "Username / MyTardis / Experiment / Dataset"

\* No scan of a data directory is made.
InitScanIdle ==
    /\ folderStructure = UsernameExperimentDataset
    /\ userDirs = {}
    /\ datasetDirs = {}
    /\ usersModel = {}
    /\ foldersModel = {}
    /\ scannedNumFiles = 0

\* openssh.py line 505: the module is imported; no file has been uploaded.
InitMkdir ==
    /\ REMOTE_DIRS_CREATED = {}
    /\ mkdirLog = <<>>
    /\ scpLog = <<>>
    /\ uploadFileResult = "notCalled"
    /\ cancelCheck = "notReached"
    /\ finalProgressCalls = 0

\* The files of a key pair and the text of the public key of a private key.
NoFile == "no file"
EmptyFile == ""
PrivateKeys == {"private key 1", "private key 2"}
PublicKeyOf(privateKey) ==
    IF privateKey = "private key 1" THEN "ssh-rsa key 1" ELSE "ssh-rsa key 2"

\* openssh.py 141-146 and 250-265: the KeyPair FindKeyPair returns for a
\* private key file; publicKeyFilePath is None when there is no .pub file.
InitKeyPairFound(privateKey, hasPublicKeyFile) ==
    /\ privateKeyFile = privateKey
    /\ publicKeyFile = IF hasPublicKeyFile THEN PublicKeyOf(privateKey) ELSE NoFile
    /\ publicKeyFilePath = IF hasPublicKeyFile THEN "set" ELSE "None"
    /\ cachedPublicKey = "None"
    /\ cachedFingerprint = "None"
    /\ keyPairResult = "notCalled"

\* No call on a KeyPair is made.
InitKeyPairIdle == InitKeyPairFound("private key 1", TRUE)

\* The OnRefresh calls the user may make, each with the ScanDataDirs thread
\* it starts.
MaxRefreshes == 2
ScanThreads == 1 .. MaxRefreshes

\* MyData.py 69-75: no flag is set and the lock is free; folders.py 59-72:
\* the controller has no worker threads before the first InitForUploads.
InitRefresh ==
    /\ scanThreadPc = [t \in ScanThreads |-> "notCalled"]
    /\ scanningFoldersThreadingLock = 0
    /\ scanningFolders = FALSE
    /\ workerThreadsOf = [t \in ScanThreads |-> "none"]
    /\ verificationWorkerThreads = 0
    /\ shutdownForRefreshPosted = FALSE

\* SettingsModel.py 19-24: a SettingsValidation object.
SettingsValidation(valid, message, field) ==
    [valid |-> valid, message |-> message, field |-> field]

\* No Validate() call has returned: none was made, or the last one raised.
NoResult == SettingsValidation(FALSE, "no result", "no result")

\* SettingsModel.py 37-58, __init__: blank fields and
\* self.validation = SettingsValidation(True).
InitValidation ==
    /\ instrument_name = ""
    /\ data_directory = ""
    /\ contact_email = ""
    /\ validation = SettingsValidation(TRUE, "", "")
    /\ validateReturned = NoResult

InitApp == InitRefresh /\ InitValidation

InitUtil == InitRenameIdle /\ InitScanIdle /\ InitMkdir /\ InitKeyPairIdle /\ InitApp

\* The GUI run: the main loop is running, the pools have the sizes of the
\* bounds, and the user chose Test Run or Upload.
Init ==
    /\ maxUploadThreads = MaxUploadThreads
    /\ maxVerificationThreads = MaxVerificationThreads
    /\ testRunRunning \in BOOLEAN
    /\ mainLoopRunning = TRUE
    /\ InitController
    /\ InitUtil

\* Any settings, with or without the main loop.
InitAnySettings ==
    /\ maxUploadThreads \in 1..MaxThreadsSetting
    /\ maxVerificationThreads \in 1..MaxThreadsSetting
    /\ testRunRunning \in BOOLEAN
    /\ mainLoopRunning \in BOOLEAN
    /\ InitController
    /\ InitUtil

\* -------------------------------------------------------- InitForUploads
\* Lines 383-408: the upload method and the warning chosen from the
\* staging-access record.
SelectUploadMethod_AnyRecord(outcome) ==
    IF outcome \in {"approved", "pending"} THEN VIA_STAGING ELSE HTTP_POST

SelectUploadMethod(outcome) ==
    IF outcome = "approved" THEN VIA_STAGING ELSE HTTP_POST

StagingWarning(outcome) ==
    CASE outcome = "absent" -> <<ShowMessageDialogEvent(MsgCouldntDetermine, ICON_WARNING)>>
      [] outcome = "pending" -> <<ShowMessageDialogEvent(MsgApprovalRequired, ICON_WARNING)>>
      [] OTHER -> <<>>

\* Lines 409-415: urllib2 is not thread-safe, so HTTP POST gets one thread.
ClampUploadThreads_NoClamp(method, n) == n

ClampUploadThreads(method, n) ==
    IF method = HTTP_POST /\ n > 1 THEN 1 ELSE n

\* FoldersController.InitForUploads, called first thing by ScanDataDirs.
InitForUploads ==
    /\ scanPc = "InitForUploads"
    /\ \E outcome \in StagingOutcomes :
        /\ stagingOutcome' = outcome
        /\ testRun' = testRunRunning
        /\ started' = TRUE /\ canceled' = FALSE /\ failed' = FALSE
        /\ completed' = FALSE
        /\ verification' = [t \in Tasks |-> "none"]
        /\ upload' = [t \in Tasks |-> "none"]
        /\ verificationsQueue' = <<>>
        /\ numVerificationWorkerThreads' = maxVerificationThreads
        /\ verificationWorkers' = IF mainLoopRunning
                                  THEN StartThreads(maxVerificationThreads)
                                  ELSE NoThreads
        /\ uploadsQueue' = <<>>
        /\ lastErrorMessage' = "None"
        /\ IF outcome = "raises"
           THEN \* lines 374-382: post the error and return
                /\ numUploadWorkerThreads' = maxUploadThreads
                /\ uploadMethod' = HTTP_POST
                /\ events' = Append(events,
                                ShowMessageDialogEvent(MsgStagingError, ICON_ERROR))
                /\ initErrorsPosted' = initErrorsPosted + 1
                /\ UNCHANGED <<uploadWorkers, warningsPosted,
                               finishedScanningForDatasetFolders,
                               numVerificationsToBePerformed,
                               finishedCountingVerifications>>
           ELSE /\ uploadMethod' = SelectUploadMethod(outcome)
                /\ events' = events \o StagingWarning(outcome)
                /\ warningsPosted' = warningsPosted + Len(StagingWarning(outcome))
                /\ numUploadWorkerThreads' =
                       ClampUploadThreads(uploadMethod', maxUploadThreads)
                /\ uploadWorkers' = IF mainLoopRunning
                                    THEN StartThreads(numUploadWorkerThreads')
                                    ELSE NoThreads
                /\ finishedScanningForDatasetFolders' = FALSE
                /\ numVerificationsToBePerformed' = 0
                /\ finishedCountingVerifications' = [f \in Folders |-> "absent"]
                /\ UNCHANGED initErrorsPosted
    /\ scanPc' = "ScanFolders"
    /\ UNCHANGED <<sideVars, settingsVars, shouldAbort, performingLookupsAndUploads,
                   shuttingDown, uploadsAcknowledged, statusMessage,
                   folderVars, mainPc, faults, numCompletedPosted,
                   startedAtCompletion, errorsPosted, shown>>

\* ------------------------------------ CountCompletedUploadsAndVerifications
\* verificationsModel.GetCompletedCount(): the lookups that ended without
\* being marked Failed.
VerificationsCompleted ==
    Count(verification, VerificationTerminal \ {"Failed"})
VerificationsFailed == Count(verification, {"Failed"})

\* uploadsModel: a row exists from the moment a worker runs the task.
UploadsRowCount(ups) == Cardinality({t \in Tasks : ups[t] \notin {"none", "queued"}})
UploadsCompleted(ups) == Cardinality({t \in Tasks : ups[t] = "Completed"})
UploadsFailed(ups) == Cardinality({t \in Tasks : ups[t] = "Failed"})
UploadsCanceled(ups) == Cardinality({t \in Tasks : ups[t] = "Canceled"})

\* Line 623 tests the threading.Event object itself, not its isSet(): an
\* object without __nonzero__/__len__ is true whether or not it is set.
EventIsTruthy(flag) == flag \in {"unset", "set"}

\* Lines 620-625.
FinishedVerificationCounting ==
    /\ finishedScanningForDatasetFolders
    /\ \A folder \in Folders :
          finishedCountingVerifications[folder] # "absent"
              => EventIsTruthy(finishedCountingVerifications[folder])

\* Lines 627-631, for the given uploads model, uploads queue and
\* acknowledged count (those of the caller's moment).
CompletionPredicate(ups, queue, acknowledged) ==
    LET uploadsToBePerformed == UploadsRowCount(ups) + Len(queue)
        uploadsProcessed == UploadsCompleted(ups) + UploadsFailed(ups)
    IN  /\ VerificationsCompleted = numVerificationsToBePerformed
        /\ FinishedVerificationCounting
        /\ \/ uploadsProcessed = uploadsToBePerformed
           \/ (testRun /\ acknowledged = uploadsToBePerformed)

\* Lines 596-597 and 627-638: does this call post ShutdownUploads(completed)?
\* Without a main loop a test run posts it as soon as the counting is done.
PostsCompleted(ups, queue, acknowledged) ==
    /\ ~(completed \/ canceled)
    /\ \/ CompletionPredicate(ups, queue, acknowledged)
       \/ (~mainLoopRunning /\ testRun /\ FinishedVerificationCounting)

StartedFolders == {f \in Folders : folderPc[f] # "notStarted"}

\* The whole of CountCompletedUploadsAndVerifications, appending to evs.
CountCompletedUploadsAndVerifications(evs, ups, queue, acknowledged) ==
    /\ statusMessage' = IF completed \/ canceled THEN statusMessage ELSE StProgress
    /\ IF PostsCompleted(ups, queue, acknowledged)
       THEN /\ events' = Append(evs, ShutdownUploadsEvent("completed"))
            /\ numCompletedPosted' = numCompletedPosted + 1
            /\ startedAtCompletion' = startedAtCompletion \cup StartedFolders
       ELSE /\ events' = evs
            /\ UNCHANGED <<numCompletedPosted, startedAtCompletion>>

\* The user may press Stop, and a call, lookup or transfer may go wrong, only
\* while fewer than MaxFaults such things have happened; Fault(b) is the
\* guard and the count of one outcome.
Fault(isFault) ==
    /\ isFault => faults < MaxFaults
    /\ faults' = IF isFault THEN faults + 1 ELSE faults

\* ---------------------------------------------------- the ScanDataDirs thread
\* FoldersModel.ScanFolders finds one more dataset folder: it adds the row
\* and hands the folder to StartUploadsForFolder on a thread of its own.
ScanFoldersAddFolder ==
    /\ scanPc = "ScanFolders"
    /\ foldersCount < NumFolders
    /\ ~shouldAbort
    /\ \E n \in FileCounts :
        /\ foldersCount' = foldersCount + 1
        /\ numFiles' = [numFiles EXCEPT ![foldersCount + 1] = n]
        /\ folderPc' = [folderPc EXCEPT ![foldersCount + 1] = "register"]
        /\ performingLookupsAndUploads' = TRUE
    /\ UNCHANGED <<sideVars, settingsVars, shouldAbort, flagVars, poolVars, countVars,
                   lastErrorMessage, statusMessage, verificationsQueue,
                   uploadsQueue, verificationWorkers, uploadWorkers, scanPc,
                   stagingOutcome, experimentModel, datasetModel, mainPc,
                   events, faults, verification, upload, historyVars>>

\* MyData.py 497 and 503-513: ScanFolders raises InvalidFolderStructure.
\* The handler queues a dialog for the main thread, writes the exception
\* text to the status bar and returns from ScanDataDirs: lines 499-501 are
\* skipped, so FinishedScanningForDatasetFolders is not called.
ScanFoldersInvalidFolderStructure ==
    /\ scanPc = "ScanFolders"
    /\ Fault(TRUE)
    /\ events' = Append(events, ScanErrorDialogEvent)
    /\ statusMessage' = StInvalidFolderStructure
    /\ scanPc' = "raised"
    /\ UNCHANGED <<sideVars, settingsVars, shouldAbort, performingLookupsAndUploads,
                   flagVars, poolVars, countVars, lastErrorMessage,
                   verificationsQueue, uploadsQueue, verificationWorkers,
                   uploadWorkers, stagingOutcome, folderVars, mainPc,
                   verification, upload, historyVars>>

\* FinishedScanningForDatasetFolders, line 436: ScanFolders has returned
\* (no more folders, or it saw ShouldAbort) and the flag is set.
FinishedScanningSetFlag ==
    /\ scanPc = "ScanFolders"
    /\ finishedScanningForDatasetFolders' = TRUE
    /\ scanPc' = "FinishedScanning"
    /\ UNCHANGED <<sideVars, settingsVars, shouldAbort, performingLookupsAndUploads,
                   flagVars, poolVars, finishedCountingVerifications,
                   numVerificationsToBePerformed, uploadsAcknowledged,
                   lastErrorMessage, statusMessage, verificationsQueue,
                   uploadsQueue, verificationWorkers, uploadWorkers,
                   stagingOutcome, folderVars, mainPc, events, faults,
                   verification, upload, historyVars>>

\* Lines 438-441: leave the wait loop once the dict has a key per folder,
\* then check for completion.
FinishedScanningCount ==
    /\ scanPc = "FinishedScanning"
    /\ Cardinality({f \in Folders : finishedCountingVerifications[f] # "absent"})
           >= foldersCount
    /\ CountCompletedUploadsAndVerifications(events, upload, uploadsQueue,
                                             uploadsAcknowledged)
    /\ scanPc' = "done"
    /\ UNCHANGED <<sideVars, settingsVars, shouldAbort, performingLookupsAndUploads,
                   flagVars, poolVars, countVars, lastErrorMessage,
                   verificationsQueue, uploadsQueue, verificationWorkers,
                   uploadWorkers, stagingOutcome, folderVars, mainPc, faults,
                   verification, upload, errorsPosted, warningsPosted,
                   initErrorsPosted, shown>>

\* ------------------------------------------------- StartUploadsForFolder
\* Lines 453-454, 462-463, 507-508.
ShuttingDownOrAborting == shuttingDown \/ shouldAbort

\* The next value of dfi in VerifyDatafiles: tasks are enqueued in order.
NextDfi(f) ==
    1 + Cardinality({i \in 1..FilesPerFolder : verification[<<f, i>>] # "none"})

\* Lines 449-455: add the folder's Event to the dict, then the first test.
StartUploadsRegister(f) ==
    /\ folderPc[f] = "register"
    /\ finishedCountingVerifications' =
           [finishedCountingVerifications EXCEPT ![f] = "unset"]
    /\ folderPc' = [folderPc EXCEPT ![f] =
           IF ShuttingDownOrAborting THEN "returned" ELSE "count"]
    /\ registeredAfterError' = [registeredAfterError EXCEPT ![f] =
           \E g \in Folders : errorsPosted[g] > 0]
    /\ UNCHANGED <<lockVars, dialogVars, utilVars, cacheVars, abortVars, scpVars, settingsVars, shouldAbort, performingLookupsAndUploads,
                   flagVars, poolVars, finishedScanningForDatasetFolders,
                   numVerificationsToBePerformed, uploadsAcknowledged,
                   lastErrorMessage, statusMessage, verificationsQueue,
                   uploadsQueue, verificationWorkers, uploadWorkers, scanPc,
                   stagingOutcome, foldersCount, numFiles, experimentModel,
                   datasetModel, mainPc, events, faults, verification, upload,
                   historyVars>>

\* Lines 456-464: count the folder's files, then the second test.
StartUploadsCount(f) ==
    /\ folderPc[f] = "count"
    /\ numVerificationsToBePerformed' = numVerificationsToBePerformed + numFiles[f]
    /\ folderPc' = [folderPc EXCEPT ![f] =
           IF ShuttingDownOrAborting THEN "returned" ELSE "experiment"]
    /\ UNCHANGED <<sideVars, settingsVars, shouldAbort, performingLookupsAndUploads,
                   flagVars, poolVars, finishedScanningForDatasetFolders,
                   finishedCountingVerifications, uploadsAcknowledged,
                   lastErrorMessage, statusMessage, verificationsQueue,
                   uploadsQueue, verificationWorkers, uploadWorkers, scanPc,
                   stagingOutcome, foldersCount, numFiles, experimentModel,
                   datasetModel, mainPc, events, faults, verification, upload,
                   historyVars>>

\* Lines 471-478 and 485-492: the handler of an exception from
\* GetOrCreateExperimentForFolder or CreateDatasetIfNecessary. Both catch
\* Exception, so ConnectionError and ValueError from these calls end here too.
FolderErrorHandler(f, message) ==
    /\ events' = Append(events, ShowMessageDialogEvent(message, ICON_ERROR))
    /\ errorsPosted' = [errorsPosted EXCEPT ![f] = @ + 1]
    /\ folderPc' = [folderPc EXCEPT ![f] = "returned"]

\* Line 481: folderModel.experimentModel = experimentModel.
AssignExperiment_Dropped(f, result) == experimentModel

AssignExperiment(f, result) == [experimentModel EXCEPT ![f] = result]

\* Lines 465-481: get or create the experiment, under the lock.
StartUploadsExperiment(f) ==
    /\ folderPc[f] = "experiment"
    /\ \E result \in {"ok", "None", "raises"} :
        /\ Fault(result # "ok")
        /\ IF result = "raises"
           THEN /\ FolderErrorHandler(f, MsgExperimentError)
                /\ UNCHANGED experimentModel
           ELSE /\ experimentModel' = AssignExperiment(f, result)
                /\ folderPc' = [folderPc EXCEPT ![f] = "dataset"]
                /\ UNCHANGED <<events, errorsPosted>>
    /\ UNCHANGED <<sideVars, settingsVars, shouldAbort, performingLookupsAndUploads,
                   flagVars, poolVars, countVars, lastErrorMessage,
                   statusMessage, verificationsQueue, uploadsQueue,
                   verificationWorkers, uploadWorkers, scanPc, stagingOutcome,
                   foldersCount, numFiles, datasetModel, mainPc, verification, upload, numCompletedPosted,
                   startedAtCompletion, warningsPosted, initErrorsPosted, shown>>

\* Lines 482-492: create the dataset if necessary.
StartUploadsDataset(f) ==
    /\ folderPc[f] = "dataset"
    /\ \E result \in {"ok", "raises"} :
        /\ Fault(result # "ok")
        /\ IF result = "raises"
           THEN /\ FolderErrorHandler(f, MsgDatasetError)
                /\ UNCHANGED datasetModel
           ELSE /\ datasetModel' = [datasetModel EXCEPT ![f] = "ok"]
                /\ folderPc' = [folderPc EXCEPT ![f] = "verify"]
                /\ UNCHANGED <<events, errorsPosted>>
    /\ UNCHANGED <<sideVars, settingsVars, shouldAbort, performingLookupsAndUploads,
                   flagVars, poolVars, countVars, lastErrorMessage,
                   statusMessage, verificationsQueue, uploadsQueue,
                   verificationWorkers, uploadWorkers, scanPc, stagingOutcome,
                   foldersCount, numFiles, experimentModel, mainPc, verification, upload, numCompletedPosted,
                   startedAtCompletion, warningsPosted, initErrorsPosted, shown>>

\* Lines 493-501 and VerifyDatafiles, 781-795: one turn of the loop over
\* the folder's files. The loop ends when dfi runs out or IsShuttingDown();
\* a ConnectionError or ValueError that escapes it (from constructing the
\* VerifyDatafileRunnable) is logged and the call returns (lines 494-501),
\* with no message event.
StartUploadsVerifyDatafiles(f) ==
    /\ folderPc[f] = "verify"
    /\ IF NextDfi(f) > numFiles[f] \/ shuttingDown
       THEN /\ folderPc' = [folderPc EXCEPT ![f] = "finish"]
            /\ UNCHANGED <<verification, verificationsQueue, faults>>
       ELSE \E result \in {"put", "ConnectionError", "ValueError"} :
            /\ Fault(result # "put")
            /\ IF result = "put"
               THEN /\ verification' =
                           [verification EXCEPT ![<<f, NextDfi(f)>>] = "queued"]
                    /\ verificationsQueue' =
                           Append(verificationsQueue, <<f, NextDfi(f)>>)
                    /\ UNCHANGED folderPc
               ELSE /\ folderPc' = [folderPc EXCEPT ![f] = "returned"]
                    /\ UNCHANGED <<verification, verificationsQueue>>
    /\ UNCHANGED <<sideVars, settingsVars, shouldAbort, performingLookupsAndUploads,
                   flagVars, poolVars, countVars, lastErrorMessage,
                   statusMessage, uploadsQueue, verificationWorkers,
                   uploadWorkers, scanPc, stagingOutcome, foldersCount,
                   numFiles, experimentModel, datasetModel, mainPc, events,
                   upload, historyVars>>

\* Lines 502-519: the tests after VerifyDatafiles, the folder's flag, and
\* the completion check for the case of no files.
StartUploadsFinish(f) ==
    /\ folderPc[f] = "finish"
    /\ folderPc' = [folderPc EXCEPT ![f] = "returned"]
    /\ IF (experimentModel[f] = "None" /\ ~testRun) \/ ShuttingDownOrAborting
       THEN UNCHANGED <<finishedCountingVerifications, statusMessage, events,
                        numCompletedPosted, startedAtCompletion>>
       ELSE /\ finishedCountingVerifications' =
                   [finishedCountingVerifications EXCEPT ![f] = "set"]
            /\ IF foldersCount = 0 \/ numVerificationsToBePerformed = 0
               THEN CountCompletedUploadsAndVerifications(
                        events, upload, uploadsQueue, uploadsAcknowledged)
               ELSE UNCHANGED <<statusMessage, events, numCompletedPosted,
                                startedAtCompletion>>
    /\ UNCHANGED <<sideVars, settingsVars, shouldAbort, performingLookupsAndUploads,
                   flagVars, poolVars, finishedScanningForDatasetFolders,
                   numVerificationsToBePerformed, uploadsAcknowledged,
                   lastErrorMessage, verificationsQueue, uploadsQueue,
                   verificationWorkers, uploadWorkers, scanPc, stagingOutcome,
                   foldersCount, numFiles, experimentModel, datasetModel,
                   mainPc, faults, verification, upload, errorsPosted,
                   warningsPosted, initErrorsPosted, shown>>

\* ------------------------------------------------------- worker threads
\* Lines 568-570 and 535-537: get() hands over the head of the queue; None
\* makes the worker return, a task is run.
WorkerGet(pool, head) ==
    IF head = Sentinel
    THEN [pool EXCEPT !.waiting = @ - 1, !.returned = @ + 1]
    ELSE [pool EXCEPT !.waiting = @ - 1, !.busy = @ + 1]

\* Lines 571-588 and 538-555, then 566-567 and 533-534: if Run raised, the
\* handler logs, calls task_done() and returns; else the worker loops, and
\* at the top of the loop it returns if IsShuttingDown(), else calls get().
WorkerAfterRun(pool, raised) ==
    IF raised \/ shuttingDown
    THEN [pool EXCEPT !.busy = @ - 1, !.returned = @ + 1]
    ELSE [pool EXCEPT !.busy = @ - 1, !.waiting = @ + 1]

VerificationWorkerGet ==
    /\ verificationWorkers.waiting > 0
    /\ verificationsQueue # <<>>
    /\ verificationWorkers' =
           WorkerGet(verificationWorkers, Head(verificationsQueue))
    /\ verificationsQueue' = Tail(verificationsQueue)
    /\ verification' =
           IF Head(verificationsQueue) = Sentinel THEN verification
           ELSE [verification EXCEPT ![Head(verificationsQueue)] = "InProgress"]
    /\ UNCHANGED <<sideVars, settingsVars, shouldAbort, performingLookupsAndUploads,
                   flagVars, poolVars, countVars, lastErrorMessage,
                   statusMessage, uploadsQueue, uploadWorkers, scanPc,
                   stagingOutcome, folderVars, mainPc, events, faults, upload,
                   historyVars>>

\* VerifyDatafileRunnable.Run for task t, from the lookup to its outcome:
\*   FoundVerified  the file is on the server (verified, or full size and
\*                  awaiting verification): an event for the completion check;
\*   NotFound       absent or incomplete on the server: an event for
\*                  UploadDatafile;
\*   Failed         the lookup failed and was marked Failed;
\*   Raises         the lookup failed, was marked Failed, and the exception
\*                  reached the worker.
VerifyOutcomes == {"FoundVerified", "NotFound", "Failed", "Raises"}

VerifyDatafileRun(t, outcome) ==
    /\ verification[t] = "InProgress"
    /\ verification' = [verification EXCEPT ![t] =
           IF outcome \in {"FoundVerified", "NotFound"} THEN outcome ELSE "Failed"]
    /\ events' =
           CASE outcome = "FoundVerified" -> Append(events, CountEvent)
             [] outcome = "NotFound" -> Append(events, UploadDatafileEvent(t[1], t[2]))
             [] OTHER -> events

VerificationWorkerRun ==
    /\ \E t \in Tasks, outcome \in VerifyOutcomes :
        /\ Fault(outcome \in {"Failed", "Raises"})
        /\ VerifyDatafileRun(t, outcome)
        /\ verificationWorkers' =
               WorkerAfterRun(verificationWorkers, outcome = "Raises")
    /\ UNCHANGED <<sideVars, settingsVars, shouldAbort, performingLookupsAndUploads,
                   flagVars, poolVars, countVars, lastErrorMessage,
                   statusMessage, verificationsQueue, uploadsQueue,
                   uploadWorkers, scanPc, stagingOutcome, folderVars, mainPc,
                   upload, historyVars>>

\* openssh.py 403-424 and 453-461, 483-487: Run starts an ssh (mkdir) or
\* scp subprocess with -i <private key> on its command line.
ScpLaunch(procs, t) == [procs EXCEPT ![t] = "running"]

\* openssh.py 462-468 and 488-494 (and communicate() at 422): the worker
\* polls until its subprocess has exited before Run goes on.
ScpWaitForExit_NotWaited(procs, t) == procs

ScpWaitForExit(procs, t) ==
    [procs EXCEPT ![t] = IF @ = "running" THEN "exited" ELSE @]

\* openssh.py 611-635: every ssh or scp process with the private key on its
\* command line is killed.
CleanUpScpAndSshProcesses(procs) ==
    [t \in Tasks |-> IF procs[t] = "running" THEN "killed" ELSE procs[t]]

\* Lines 533-539: the worker takes the head of the uploads queue; a task is
\* run, and with the staged method its Run may start a subprocess (it does
\* not when it fails or sees the cancellation before it gets that far).
UploadWorkerGet ==
    /\ uploadWorkers.waiting > 0
    /\ uploadsQueue # <<>>
    /\ uploadWorkers' = WorkerGet(uploadWorkers, Head(uploadsQueue))
    /\ uploadsQueue' = Tail(uploadsQueue)
    /\ upload' =
           IF Head(uploadsQueue) = Sentinel THEN upload
           ELSE [upload EXCEPT ![Head(uploadsQueue)] = "InProgress"]
    /\ IF Head(uploadsQueue) # Sentinel /\ uploadMethod = VIA_STAGING
       THEN \E launched \in BOOLEAN :
            IF launched
            THEN /\ scpProcess' = ScpLaunch(scpProcess, Head(uploadsQueue))
                 /\ launchedLate' =
                        IF shuttingDown
                        THEN launchedLate \cup {Head(uploadsQueue)}
                        ELSE launchedLate
            ELSE UNCHANGED <<scpProcess, launchedLate>>
       ELSE UNCHANGED <<scpProcess, launchedLate>>
    /\ UNCHANGED <<lockVars, dialogVars, utilVars, cacheVars, abortVars, fatalVars, swept, settingsVars, shouldAbort, performingLookupsAndUploads,
                   flagVars, poolVars, countVars, lastErrorMessage,
                   statusMessage, verificationsQueue, verificationWorkers,
                   scanPc, stagingOutcome, folderVars, mainPc, events, faults,
                   verification, historyVars>>

\* UploadDatafileRunnable.Run for task t, from the transfer to its outcome:
\* Completed and Failed post the event for the completion check; Raises
\* marks the upload Failed and the exception reaches the worker; Fatal is an
\* error fatal to the run, which marks the upload Failed and posts
\* ShutdownUploads(failed=True). An upload that CancelRemaining canceled
\* while it ran ends Canceled, with no event.
UploadOutcomes == {"Completed", "Failed", "Raises", "Fatal"}

UploadDatafileRun(t, outcome) ==
    /\ upload[t] \in {"InProgress", "Canceling"}
    /\ upload' = [upload EXCEPT ![t] =
           IF upload[t] = "Canceling" THEN "Canceled"
           ELSE IF outcome = "Completed" THEN "Completed" ELSE "Failed"]
    /\ events' =
           IF upload[t] = "Canceling" \/ outcome = "Raises" THEN events
           ELSE IF outcome = "Fatal"
                THEN Append(events, ShutdownUploadsEvent("failed"))
                ELSE Append(events, CountEvent)

UploadWorkerRun ==
    /\ \E t \in Tasks, outcome \in UploadOutcomes :
        /\ Fault(outcome # "Completed")
        /\ UploadDatafileRun(t, outcome)
        /\ scpProcess' = ScpWaitForExit(scpProcess, t)
        /\ uploadWorkers' = WorkerAfterRun(uploadWorkers, outcome = "Raises")
    /\ UNCHANGED <<lockVars, dialogVars, utilVars, cacheVars, abortVars, fatalVars, swept, launchedLate, settingsVars, shouldAbort, performingLookupsAndUploads,
                   flagVars, poolVars, countVars, lastErrorMessage,
                   statusMessage, verificationsQueue, uploadsQueue,
                   verificationWorkers, scanPc, stagingOutcome, folderVars,
                   mainPc, verification, historyVars>>

\* uploadsModel.CancelRemaining(): every upload that has a row and is not
\* finished is canceled; its worker is still inside Run.
CancelRemaining(ups) ==
    [t \in Tasks |-> IF ups[t] = "InProgress" THEN "Canceling" ELSE ups[t]]

\* ------------------------------------------------------- the main thread
\* MyData.OnStop: the user pressed Stop while a run is in progress. It is a
\* handler of the main thread, so it runs when no other handler does.
OnStop ==
    /\ started
    /\ mainPc = "idle"
    /\ Fault(TRUE)
    /\ shouldAbort' = TRUE
    /\ events' = Append(events, ShutdownUploadsEvent("canceled"))
    /\ abortIssued' = (abortIssued \/ ~(completed \/ canceled \/ failed))
    /\ UNCHANGED <<lockVars, dialogVars, utilVars, cacheVars, fatalVars, scpVars, settingsVars, performingLookupsAndUploads, flagVars,
                   poolVars, countVars, lastErrorMessage, statusMessage,
                   verificationsQueue, uploadsQueue, verificationWorkers,
                   uploadWorkers, scanPc, stagingOutcome, folderVars, mainPc,
                   verification, upload, historyVars>>

NextEvent == Head(events)
Dispatch(h) == mainPc = "idle" /\ events # <<>> /\ NextEvent.handler = h

\* An event bound to CountCompletedUploadsAndVerifications is handled.
HandleCountEvent ==
    /\ Dispatch("CountCompletedUploadsAndVerifications")
    /\ CountCompletedUploadsAndVerifications(Tail(events), upload, uploadsQueue,
                                             uploadsAcknowledged)
    /\ UNCHANGED <<sideVars, settingsVars, shouldAbort, performingLookupsAndUploads,
                   flagVars, poolVars, countVars, lastErrorMessage,
                   verificationsQueue, uploadsQueue, verificationWorkers,
                   uploadWorkers, scanPc, stagingOutcome, folderVars, mainPc,
                   faults, verification, upload, errorsPosted, warningsPosted,
                   initErrorsPosted, shown>>

\* Lines 323-325: with the main loop running the runnable is put on the
\* uploads queue.
PutUpload_AndAgain(queue, t) == queue \o <<t, t>>

PutUpload(queue, t) == Append(queue, t)

\* Line 304: self.uploadsAcknowledged += 1.
Acknowledge_Nothing(acknowledged) == acknowledged

Acknowledge(acknowledged) == acknowledged + 1

\* UploadDatafile, lines 282-328.
UploadDatafile ==
    /\ Dispatch("UploadDatafile")
    /\ LET t == <<NextEvent.folder, NextEvent.dfi>> IN
       IF testRun
       THEN /\ uploadsAcknowledged' = Acknowledge(uploadsAcknowledged)
            /\ CountCompletedUploadsAndVerifications(
                   Tail(events), upload, uploadsQueue,
                   Acknowledge(uploadsAcknowledged))
            /\ UNCHANGED <<upload, uploadsQueue>>
       ELSE /\ upload' = [upload EXCEPT ![t] = "queued"]
            /\ uploadsQueue' = PutUpload(uploadsQueue, t)
            /\ CountCompletedUploadsAndVerifications(
                   Tail(events), upload', uploadsQueue', uploadsAcknowledged)
            /\ UNCHANGED uploadsAcknowledged
    /\ UNCHANGED <<sideVars, settingsVars, shouldAbort, performingLookupsAndUploads,
                   flagVars, poolVars, finishedScanningForDatasetFolders,
                   finishedCountingVerifications,
                   numVerificationsToBePerformed, lastErrorMessage,
                   verificationsQueue, verificationWorkers, uploadWorkers,
                   scanPc, stagingOutcome, folderVars, mainPc, faults,
                   verification, errorsPosted, warningsPosted,
                   initErrorsPosted, shown>>

\* ShowMessageDialog, lines 238-280 (no error dialog is showing while the
\* main thread dispatches: the handler sets and clears the flag itself).
ShowMessageDialog ==
    /\ Dispatch("ShowMessageDialog")
    /\ events' = Tail(events)
    /\ IF NextEvent.kind = lastErrorMessage
       THEN UNCHANGED <<lastErrorMessage, shown>>
       ELSE /\ lastErrorMessage' = NextEvent.kind
            /\ shown' = shown + 1
    /\ UNCHANGED <<sideVars, settingsVars, shouldAbort, performingLookupsAndUploads,
                   flagVars, poolVars, countVars, statusMessage,
                   verificationsQueue, uploadsQueue, verificationWorkers,
                   uploadWorkers, scanPc, stagingOutcome, folderVars, mainPc,
                   faults, verification, upload, numCompletedPosted,
                   startedAtCompletion, errorsPosted, warningsPosted,
                   initErrorsPosted>>

\* MyData.py 504-510: the main thread shows the scan's error dialog.
ShowScanErrorDialog ==
    /\ Dispatch("ScanErrorDialog")
    /\ events' = Tail(events)
    /\ shown' = shown + 1
    /\ UNCHANGED <<sideVars, settingsVars, shouldAbort, performingLookupsAndUploads,
                   flagVars, poolVars, countVars, lastErrorMessage, statusMessage,
                   verificationsQueue, uploadsQueue, verificationWorkers,
                   uploadWorkers, scanPc, stagingOutcome, folderVars, mainPc,
                   faults, verification, upload, numCompletedPosted,
                   startedAtCompletion, errorsPosted, warningsPosted,
                   initErrorsPosted>>

\* Line 645: the guard of ShutDownUploadThreads.
ShutDownGuard == shuttingDown \/ completed \/ canceled

\* Lines 703-729: the final status string. StSuccess stands for the message
\* that begins with that sentence (lines 716-727 may append the average
\* speed to it).
FinalMessage ==
    IF failed THEN StFailed
    ELSE IF canceled THEN StCanceled
    ELSE IF UploadsFailed(upload) > 0 THEN StCompletedWithFailed
    ELSE IF completed
         THEN (IF UploadsCompleted(upload) > 0 THEN StSuccess ELSE StNoNewFiles)
    ELSE StAppear

\* ShutDownUploadThreads, lines 645-665: a call that the guard refuses.
ShutDownRefused ==
    /\ Dispatch("ShutDownUploadThreads")
    /\ ShutDownGuard
    /\ events' = Tail(events)
    /\ UNCHANGED <<sideVars, settingsVars, shouldAbort, performingLookupsAndUploads,
                   flagVars, poolVars, countVars, lastErrorMessage,
                   statusMessage, verificationsQueue, uploadsQueue,
                   verificationWorkers, uploadWorkers, scanPc, stagingOutcome,
                   folderVars, mainPc, faults, verification, upload,
                   historyVars>>

\* ShutDownUploadThreads, lines 645-665: StartUploadsForFolder was never
\* called, so the run is marked completed at once.
ShutDownNoFolders ==
    /\ Dispatch("ShutDownUploadThreads")
    /\ ~ShutDownGuard
    /\ ~performingLookupsAndUploads
    /\ events' = Tail(events)
    /\ cacheClosed' = TRUE
    /\ shouldAbort' = FALSE
    /\ statusMessage' = StNoFolders
    /\ completed' = TRUE
    /\ shuttingDown' = FALSE
    /\ startedAtCompletion' = startedAtCompletion \cup StartedFolders
    /\ UNCHANGED <<lockVars, abortVars, fatalVars, scpVars, dialogVars,
                   utilVars, settingsVars, performingLookupsAndUploads, testRun,
                   started, canceled, failed, poolVars, countVars,
                   lastErrorMessage, verificationsQueue, uploadsQueue,
                   verificationWorkers, uploadWorkers, scanPc, stagingOutcome,
                   folderVars, mainPc, faults, verification, upload,
                   numCompletedPosted, errorsPosted, warningsPosted,
                   initErrorsPosted, shown>>

\* ShutDownUploadThreads, lines 645-686: close the cache of verified
\* datafiles (649), set the flags for the event, cancel
\* the remaining uploads unless completed, put one None per upload worker on
\* the uploads queue and, with the staged method, sweep the scp and ssh
\* processes. The main thread then joins the upload workers (687-688).
ShutDownBegin ==
    /\ Dispatch("ShutDownUploadThreads")
    /\ ~ShutDownGuard
    /\ performingLookupsAndUploads
    /\ events' = Tail(events)
    /\ shuttingDown' = TRUE
    /\ cacheClosed' = TRUE
    /\ statusMessage' = StShuttingDown
    /\ failed' = (failed \/ NextEvent.kind = "failed")
    /\ completed' = (completed \/ NextEvent.kind = "completed")
    /\ canceled' = (canceled \/ NextEvent.kind \notin {"failed", "completed"})
    /\ upload' = IF NextEvent.kind = "completed" THEN upload
                 ELSE CancelRemaining(upload)
    /\ startedAtCompletion' =
           IF NextEvent.kind = "completed"
           THEN startedAtCompletion \cup StartedFolders ELSE startedAtCompletion
    /\ uploadsQueue' = uploadsQueue \o Sentinels(numUploadWorkerThreads)
    /\ IF uploadMethod = VIA_STAGING
       THEN /\ scpProcess' = CleanUpScpAndSshProcesses(scpProcess)
            /\ swept' = TRUE
       ELSE UNCHANGED <<scpProcess, swept>>
    /\ mainPc' = "joinUploadWorkers"
    /\ UNCHANGED <<lockVars, dialogVars, utilVars, abortVars, fatalVars, launchedLate, settingsVars, shouldAbort, performingLookupsAndUploads,
                   testRun, started, poolVars, countVars, lastErrorMessage,
                   verificationsQueue, verificationWorkers, uploadWorkers,
                   scanPc, stagingOutcome, folderVars, faults, verification,
                   numCompletedPosted, errorsPosted, warningsPosted,
                   initErrorsPosted, shown>>

\* Lines 688-693: every upload worker has been joined; one None per
\* verification worker goes on the verifications queue.
ShutDownJoinedUploadWorkers ==
    /\ mainPc = "joinUploadWorkers"
    /\ Alive(uploadWorkers) = 0
    /\ verificationsQueue' =
           verificationsQueue \o Sentinels(numVerificationWorkerThreads)
    /\ mainPc' = "joinVerificationWorkers"
    /\ UNCHANGED <<sideVars, settingsVars, shouldAbort, performingLookupsAndUploads,
                   flagVars, poolVars, countVars, lastErrorMessage,
                   statusMessage, uploadsQueue, verificationWorkers,
                   uploadWorkers, scanPc, stagingOutcome, folderVars, events,
                   faults, verification, upload, historyVars>>

\* Lines 694-745: every verification worker has been joined; the final
\* status is set and the flags of the run are cleared.
ShutDownFinish ==
    /\ mainPc = "joinVerificationWorkers"
    /\ Alive(verificationWorkers) = 0
    /\ statusMessage' = FinalMessage
    /\ shouldAbort' = FALSE
    /\ performingLookupsAndUploads' = FALSE
    /\ shuttingDown' = FALSE
    /\ testRunRunning' = FALSE
    /\ mainPc' = "idle"
    /\ UNCHANGED <<sideVars, maxUploadThreads, maxVerificationThreads,
                   mainLoopRunning, testRun, started, canceled, failed, completed, poolVars,
                   countVars,
                   lastErrorMessage, verificationsQueue, uploadsQueue,
                   verificationWorkers, uploadWorkers, scanPc, stagingOutcome,
                   folderVars, events, faults, verification, upload,
                   historyVars>>

\* ------------------------------------------------------------------ Spec
Next ==
    \/ InitForUploads
    \/ ScanFoldersAddFolder
    \/ ScanFoldersInvalidFolderStructure
    \/ FinishedScanningSetFlag
    \/ FinishedScanningCount
    \/ \E f \in Folders : StartUploadsRegister(f)
    \/ \E f \in Folders : StartUploadsCount(f)
    \/ \E f \in Folders : StartUploadsExperiment(f)
    \/ \E f \in Folders : StartUploadsDataset(f)
    \/ \E f \in Folders : StartUploadsVerifyDatafiles(f)
    \/ \E f \in Folders : StartUploadsFinish(f)
    \/ VerificationWorkerGet
    \/ VerificationWorkerRun
    \/ UploadWorkerGet
    \/ UploadWorkerRun
    \/ OnStop
    \/ HandleCountEvent
    \/ UploadDatafile
    \/ ShowMessageDialog
    \/ ShowScanErrorDialog
    \/ ShutDownRefused
    \/ ShutDownNoFolders
    \/ ShutDownBegin
    \/ ShutDownJoinedUploadWorkers
    \/ ShutDownFinish

Spec == Init /\ [][Next]_vars

\* InitForUploads alone, from every setting.
NextInit == InitForUploads

SpecInit == InitAnySettings /\ [][NextInit]_vars

\* ------------------------------------------- the experiment lock (SpecLock)
\* Line 364: InitForUploads makes a new Lock and stores it in
\* self.getOrCreateExpThreadingLock. StartUploadsForFolder calls of the run
\* before, still inside lines 465-481, keep the Lock object they acquired.
LockInitForUploads ==
    /\ expLock < MaxRuns
    /\ expLock' = expLock + 1
    /\ UNCHANGED <<controllerVars, auxVars, lockHeld, callPc, callLock, callFound,
                   experimentExists, createRequests, releaseRaised>>

\* Line 467: the call for f reads self.getOrCreateExpThreadingLock and calls
\* acquire() on that object.
ExpLockAcquireCalled(f) ==
    /\ expLock >= 1
    /\ callPc[f] = "notStarted"
    /\ callPc' = [callPc EXCEPT ![f] = "acquire"]
    /\ callLock' = [callLock EXCEPT ![f] = expLock]
    /\ UNCHANGED <<controllerVars, auxVars, expLock, lockHeld, callFound,
                   experimentExists, createRequests, releaseRaised>>

\* Line 467: acquire() returns once that Lock object is unlocked.
ExpLockAcquired(f) ==
    /\ callPc[f] = "acquire"
    /\ ~lockHeld[callLock[f]]
    /\ lockHeld' = [lockHeld EXCEPT ![callLock[f]] = TRUE]
    /\ callPc' = [callPc EXCEPT ![f] = "lookup"]
    /\ UNCHANGED <<controllerVars, auxVars, expLock, callLock, callFound,
                   experimentExists, createRequests, releaseRaised>>

\* GetOrCreateExperimentForFolder, lines 468-470, for folders that share one
\* experiment title: look the experiment up ...
GetOrCreateLookup(f) ==
    /\ callPc[f] = "lookup"
    /\ callFound' = [callFound EXCEPT ![f] = experimentExists]
    /\ callPc' = [callPc EXCEPT ![f] =
                     IF experimentExists THEN "release" ELSE "create"]
    /\ UNCHANGED <<controllerVars, auxVars, expLock, lockHeld, callLock,
                   experimentExists, createRequests, releaseRaised>>

\* ... and create it when the lookup found none.
GetOrCreateCreate(f) ==
    /\ callPc[f] = "create"
    /\ createRequests' = createRequests + 1
    /\ experimentExists' = TRUE
    /\ callPc' = [callPc EXCEPT ![f] = "release"]
    /\ UNCHANGED <<controllerVars, auxVars, expLock, lockHeld, callLock, callFound,
                   releaseRaised>>

\* Lines 479-480: finally, release() on the Lock object that
\* self.getOrCreateExpThreadingLock refers to now. Releasing an unlocked
\* Lock raises; a Lock locked by another thread is unlocked.
ExpLockRelease(f) ==
    /\ callPc[f] = "release"
    /\ callPc' = [callPc EXCEPT ![f] = "done"]
    /\ IF lockHeld[expLock]
       THEN /\ lockHeld' = [lockHeld EXCEPT ![expLock] = FALSE]
            /\ UNCHANGED releaseRaised
       ELSE /\ releaseRaised' = [releaseRaised EXCEPT ![f] = TRUE]
            /\ UNCHANGED lockHeld
    /\ UNCHANGED <<controllerVars, auxVars, expLock, callLock, callFound,
                   experimentExists, createRequests>>

NextLock ==
    \/ LockInitForUploads
    \/ \E f \in Folders : ExpLockAcquireCalled(f)
    \/ \E f \in Folders : ExpLockAcquired(f)
    \/ \E f \in Folders : GetOrCreateLookup(f)
    \/ \E f \in Folders : GetOrCreateCreate(f)
    \/ \E f \in Folders : ExpLockRelease(f)

SpecLock == Init /\ [][NextLock]_vars

\* ------------------------------------------- message dialogs (SpecDialog)
\* ShowMessageDialog with its modal dialog as two steps: while ShowModal()
\* has not returned, the main thread's event loop runs inside it and may
\* dispatch the next posted event. Runs are counted by expLock (line 364).
DialogMessages == {MsgExperimentError, MsgDatasetError}
DialogIcons == {ICON_ERROR, ICON_WARNING}

\* What the dialog steps leave alone.
dialogRest == <<settingsVars, shouldAbort, performingLookupsAndUploads,
                flagVars, poolVars, countVars, statusMessage,
                verificationsQueue, uploadsQueue, verificationWorkers,
                uploadWorkers, scanPc, stagingOutcome, folderVars, mainPc,
                faults, verification, upload, historyVars, abortVars,
                fatalVars, scpVars, cacheVars, utilVars, lockHeld, callPc, callLock,
                callFound, experimentExists, createRequests, releaseRaised>>

\* Lines 364-366: InitForUploads of the next run, on its ScanDataDirs
\* thread: a new Lock, lastErrorMessage = None, SetShowingErrorDialog(False).
DialogInitForUploads ==
    /\ expLock < MaxRuns
    /\ expLock' = expLock + 1
    /\ lastErrorMessage' = "None"
    /\ showingErrorDialog' = FALSE
    /\ UNCHANGED <<dialogRest, events, dialogStack, shownLog, posted>>

\* mde.PostEvent(self.ShowMessageDialogEvent(...)) by a thread of a run
\* (lines 376-381, 403-407, 473-477, 487-491).
PostShowMessageDialogEvent ==
    /\ expLock >= 1
    /\ posted < MaxPosted
    /\ \E msg \in DialogMessages, ic \in DialogIcons :
           events' = Append(events, ShowMessageDialogEvent(msg, ic))
    /\ posted' = posted + 1
    /\ UNCHANGED <<dialogRest, expLock, lastErrorMessage, showingErrorDialog,
                   dialogStack, shownLog>>

\* Lines 250-259: the two tests that make ShowMessageDialog return at once.
RefusesToShow(ev) ==
    showingErrorDialog \/ ev.kind = lastErrorMessage

\* Lines 250-271: the handler up to ShowModal().
ShowMessageDialogBegin ==
    /\ events # <<>>
    /\ events' = Tail(events)
    /\ IF RefusesToShow(Head(events))
       THEN UNCHANGED <<lastErrorMessage, showingErrorDialog, dialogStack,
                        shownLog>>
       ELSE /\ lastErrorMessage' = Head(events).kind
            /\ showingErrorDialog' =
                   (showingErrorDialog \/ Head(events).icon = ICON_ERROR)
            /\ dialogStack' = Append(dialogStack, Head(events))
            /\ shownLog' = Append(shownLog, <<expLock, Head(events).kind>>)
    /\ UNCHANGED <<dialogRest, expLock, posted>>

\* Lines 271-280: the user closes the innermost dialog, ShowModal() returns
\* and, for an error dialog, the flag is cleared.
ShowMessageDialogEnd ==
    /\ dialogStack # <<>>
    /\ dialogStack' = SubSeq(dialogStack, 1, Len(dialogStack) - 1)
    /\ showingErrorDialog' =
           IF dialogStack[Len(dialogStack)].icon = ICON_ERROR
           THEN FALSE ELSE showingErrorDialog
    /\ UNCHANGED <<dialogRest, expLock, lastErrorMessage, events, shownLog,
                   posted>>

NextDialog ==
    \/ DialogInitForUploads
    \/ PostShowMessageDialogEvent
    \/ ShowMessageDialogBegin
    \/ ShowMessageDialogEnd

SpecDialog == Init /\ [][NextDialog]_vars

\* ------------------------------------- RenameInstrument (SpecRename)
\* models/instrument.py 86-112 (SettingsModel.RenameInstrument, src/
\* SettingsModel.py 512-536, is the same sequence with None for not found).
\* The application is idle; the server holds any instruments with distinct
\* names, and the call is made with any facility outcome and names.
InitRename ==
    /\ maxUploadThreads = MaxUploadThreads
    /\ maxVerificationThreads = MaxVerificationThreads
    /\ testRunRunning = FALSE
    /\ mainLoopRunning = TRUE
    /\ InitController
    /\ facilityFound \in BOOLEAN
    /\ oldInstrumentName \in InstrumentNames
    /\ newInstrumentName \in InstrumentNames
    /\ instruments \in [InstrumentIds -> InstrumentNames \cup {NoInstrument}]
    /\ \A i, j \in InstrumentIds :
           (i # j /\ instruments[i] # NoInstrument) => instruments[i] # instruments[j]
    /\ putRequests = 0
    /\ renameResult = "notCalled"
    /\ InitScanIdle
    /\ InitMkdir
    /\ InitKeyPairIdle
    /\ InitApp

\* GetInstrument, lines 62-83: the id of the instrument of that name in the
\* facility, 0 for DoesNotExist.
GetInstrument(insts, name) ==
    IF \E id \in InstrumentIds : insts[id] = name
    THEN CHOOSE id \in InstrumentIds : insts[id] = name
    ELSE 0

\* Lines 107-112: the lookup of the new name; finding it raises DuplicateKey.
NewNameTaken_Never(insts, name) == FALSE

NewNameTaken(insts, name) == GetInstrument(insts, name) # 0

\* Rename, lines 114-129: one PUT for the instrument's id; the server
\* answers 200 and has renamed it, or answers with an error.
Rename(id, name) ==
    /\ putRequests' = putRequests + 1
    /\ \E status \in {200, 500} :
        /\ instruments' = IF status = 200
                          THEN [instruments EXCEPT ![id] = name]
                          ELSE instruments
        /\ renameResult' = IF status = 200 THEN "ok" ELSE "HttpError"

\* RenameInstrument, lines 86-112.
RenameInstrument ==
    /\ renameResult = "notCalled"
    /\ IF ~facilityFound
         \/ GetInstrument(instruments, oldInstrumentName) = 0
       THEN /\ renameResult' = "Exception"
            /\ UNCHANGED <<instruments, putRequests>>
       ELSE IF NewNameTaken(instruments, newInstrumentName)
       THEN /\ renameResult' = "DuplicateKey"
            /\ UNCHANGED <<instruments, putRequests>>
       ELSE Rename(GetInstrument(instruments, oldInstrumentName),
                   newInstrumentName)
    /\ UNCHANGED <<controllerVars, lockVars, abortVars, fatalVars, scpVars, cacheVars,
                   dialogVars, scanVars, mkdirVars, keyPairVars, appVars, facilityFound,
                   oldInstrumentName, newInstrumentName>>

NextRename == RenameInstrument

SpecRename == InitRename /\ [][NextRename]_vars

\* --------------------------------------- the folder scanner (SpecScan)
\* FoldersModel.ScanFolders for the two templates of the scan tests. A data
\* directory laid out per the template: user directories, and below them
\* (below their "MyTardis" directory, for the second template) experiment
\* directories holding dataset directories with files.
ScanUsernames == {"testuser1", "testuser2"}
ScanExperiments == {"Exp1"}
ScanDatasets == {"Birds", "Flowers"}
NoDirectory == 0 - 1

\* The path of a dataset directory below the data directory.
DatasetPath(template, user, experiment, dataset) ==
    IF template = UsernameMyTardisExperimentDataset
    THEN <<user, "MyTardis", experiment, dataset>>
    ELSE <<user, experiment, dataset>>

InitScan ==
    /\ maxUploadThreads = MaxUploadThreads
    /\ maxVerificationThreads = MaxVerificationThreads
    /\ testRunRunning = FALSE
    /\ mainLoopRunning = TRUE
    /\ InitController
    /\ InitRenameIdle
    /\ InitMkdir
    /\ InitKeyPairIdle
    /\ InitApp
    /\ folderStructure \in {UsernameExperimentDataset,
                            UsernameMyTardisExperimentDataset}
    /\ userDirs \in SUBSET ScanUsernames
    /\ \E layout \in [ScanUsernames \X ScanExperiments \X ScanDatasets ->
                         NoDirectory..MaxFilesInDataset] :
        /\ \A d \in DOMAIN layout : layout[d] # NoDirectory => d[1] \in userDirs
        /\ datasetDirs =
               {<<DatasetPath(folderStructure, d[1], d[2], d[3]), layout[d]>> :
                    d \in {x \in DOMAIN layout : layout[x] # NoDirectory}}
    /\ usersModel = {}
    /\ foldersModel = {}
    /\ scannedNumFiles = 0

\* The dataset directories the scanner finds below a user directory: the
\* template fixes the depth, and the MyTardis template the second component.
DatasetDirsOfUser_AnyDepth(template, user) ==
    {d \in datasetDirs : d[1][1] = user /\ Len(d[1]) = 3}

DatasetDirsOfUser(template, user) ==
    {d \in datasetDirs :
        /\ d[1][1] = user
        /\ IF template = UsernameMyTardisExperimentDataset
           THEN Len(d[1]) = 4 /\ d[1][2] = "MyTardis"
           ELSE Len(d[1]) = 3}

RECURSIVE SumFiles(_)
SumFiles(dirs) ==
    IF dirs = {} THEN 0
    ELSE LET d == CHOOSE x \in dirs : TRUE
         IN  d[2] + SumFiles(dirs \ {d})

\* The scanner handles the next user directory: one user record, and one
\* Folder record per dataset directory, with its files.
ScanUserFolder ==
    /\ \E user \in userDirs \ usersModel :
        /\ usersModel' = usersModel \cup {user}
        /\ foldersModel' = foldersModel \cup
               {<<user, d[1][Len(d[1])], d[2]>> :
                    d \in DatasetDirsOfUser(folderStructure, user)}
        /\ scannedNumFiles' = scannedNumFiles +
               SumFiles(DatasetDirsOfUser(folderStructure, user))
    /\ UNCHANGED <<controllerVars, lockVars, abortVars, fatalVars, scpVars, cacheVars,
                   dialogVars, renameVars, mkdirVars, keyPairVars, appVars, folderStructure,
                   userDirs, datasetDirs>>

NextScan == ScanUserFolder

SpecScan == InitScan /\ [][NextScan]_vars

\* ------------------------- remote directories of staged uploads (SpecMkdir)
\* openssh.py UploadFileFromPosixSystem (383-502) and UploadFileFromWindows
\* (508-585), called one after the other: the uploads of a run with one
\* upload thread.
RemoteDirs == {"/staging/dataset1", "/staging/dataset2"}
ExitStatuses == {0, 1, 255}

\* Lines 400 and 525: if remoteDir not in REMOTE_DIRS_CREATED.
MkdirNeeded_Always(remoteDir, created) == TRUE

MkdirNeeded(remoteDir, created) == remoteDir \notin created

\* Lines 432-435 and 551-554: the function returns if ShouldCancelUpload;
\* the scp is started only past that test.
StartsScpProcess_IgnoringCancel(raised, cancel) == ~raised

StartsScpProcess(raised, cancel) == ~raised /\ ~cancel

\* One call for a file whose remote path is in remoteDir. mkdirStatus and
\* scpStatus are the exit statuses the subprocesses would give, cancel what
\* ShouldCancelUpload would answer. The calls go on while fewer than
\* MaxStagedUploads subprocesses have been started.
UploadFile ==
    /\ Len(mkdirLog) + Len(scpLog) < MaxStagedUploads
    /\ \E remoteDir \in RemoteDirs, mkdirStatus \in ExitStatuses,
          cancel \in BOOLEAN, scpStatus \in ExitStatuses :
        LET mkdir == MkdirNeeded(remoteDir, REMOTE_DIRS_CREATED)
            raised == mkdir /\ mkdirStatus # 0
            scp == StartsScpProcess(raised, cancel)
        IN  /\ mkdirLog' = IF mkdir
                           THEN Append(mkdirLog, <<remoteDir, mkdirStatus>>)
                           ELSE mkdirLog
            /\ REMOTE_DIRS_CREATED' =
                   IF mkdir /\ ~raised
                   THEN REMOTE_DIRS_CREATED \cup {remoteDir}
                   ELSE REMOTE_DIRS_CREATED
            /\ scpLog' = IF scp THEN Append(scpLog, remoteDir) ELSE scpLog
            /\ uploadFileResult' =
                   IF raised THEN "SshException"
                   ELSE IF cancel THEN "returned"
                   ELSE IF scpStatus # 0 THEN "ScpException"
                   ELSE "uploaded"
            /\ cancelCheck' = IF raised THEN "notReached"
                              ELSE IF cancel THEN "canceled" ELSE "notCanceled"
            /\ finalProgressCalls' =
                   IF scp /\ scpStatus = 0
                   THEN finalProgressCalls + 1 ELSE finalProgressCalls
    /\ UNCHANGED <<controllerVars, lockVars, abortVars, fatalVars, scpVars, cacheVars,
                   dialogVars, renameVars, scanVars, keyPairVars, appVars>>

NextMkdir == UploadFile

SpecMkdir == Init /\ [][NextMkdir]_vars

\* -------------------------------------------- the key pair (SpecKeyPair)
\* openssh.py KeyPair, 137-247: one KeyPair object and the two files of its
\* paths. The files may be removed from outside at any time.
keyPairRest == <<controllerVars, lockVars, abortVars, fatalVars, scpVars,
                 cacheVars, dialogVars, renameVars, scanVars, mkdirVars,
                 appVars>>

InitKeyPair ==
    /\ maxUploadThreads = MaxUploadThreads
    /\ maxVerificationThreads = MaxVerificationThreads
    /\ testRunRunning = FALSE
    /\ mainLoopRunning = TRUE
    /\ InitController
    /\ InitRenameIdle /\ InitScanIdle /\ InitMkdir /\ InitApp
    /\ \E privateKey \in PrivateKeys, hasPublicKeyFile \in BOOLEAN :
           InitKeyPairFound(privateKey, hasPublicKeyFile)

\* Lines 148-157, ReadPublicKey: the text of the public key file, or
\* "SshException" when the path is None or the file does not exist.
ReadPublicKey(path, file) ==
    IF path # "None" /\ file # NoFile THEN file ELSE "SshException"

\* Lines 175-182, the publicKey property: the cached text if there is one,
\* else what ReadPublicKey gives.
PublicKeyProperty(cached, path, file) ==
    IF cached = "None" THEN ReadPublicKey(path, file) ELSE cached

\* keyPair.publicKey is read.
GetPublicKey ==
    /\ LET text == PublicKeyProperty(cachedPublicKey, publicKeyFilePath,
                                     publicKeyFile)
       IN  IF text = "SshException"
           THEN /\ keyPairResult' = "SshException"
                /\ UNCHANGED cachedPublicKey
           ELSE /\ keyPairResult' = "returned"
                /\ cachedPublicKey' = text
    /\ UNCHANGED <<keyPairRest, privateKeyFile, publicKeyFile,
                   publicKeyFilePath, cachedFingerprint>>

\* Lines 198-208: with no private key file the call raises; else the path
\* of the public key file is set if it was None and, if that file does not
\* exist, open(path, "w") creates it empty and then self.publicKey is
\* evaluated and written to it. Lines 210-238: ssh-keygen -yl gives the
\* fingerprint, or its exit status is not 0 and SshException is raised.
\* Called through the fingerprint property (240-247), which caches what it
\* returns and makes the call only while nothing is cached.
ReadFingerprintAndKeyType ==
    /\ cachedFingerprint = "None"
    /\ IF privateKeyFile = NoFile
       THEN /\ keyPairResult' = "PrivateKeyDoesNotExist"
            /\ UNCHANGED <<publicKeyFile, publicKeyFilePath, cachedPublicKey>>
       ELSE /\ publicKeyFilePath' = "set"
            /\ IF publicKeyFile = NoFile
               THEN LET text == PublicKeyProperty(cachedPublicKey, "set", EmptyFile)
                    IN  /\ cachedPublicKey' = text
                        /\ publicKeyFile' = text
               ELSE UNCHANGED <<publicKeyFile, cachedPublicKey>>
            /\ \E sshKeyGenStatus \in {0, 1} :
                   keyPairResult' = IF sshKeyGenStatus = 0 THEN "returned"
                                    ELSE "SshException"
    /\ cachedFingerprint' =
           IF keyPairResult' = "returned" THEN privateKeyFile ELSE "None"
    /\ UNCHANGED <<keyPairRest, privateKeyFile>>

\* Lines 159-173, Delete: unlink the private key file, then the public key
\* file if its path is set; an exception of unlink is logged.
KeyPairDelete ==
    /\ privateKeyFile' = NoFile
    /\ publicKeyFile' = IF privateKeyFile # NoFile /\ publicKeyFilePath # "None"
                        THEN NoFile ELSE publicKeyFile
    /\ keyPairResult' =
           IF privateKeyFile = NoFile
              \/ (publicKeyFilePath # "None" /\ publicKeyFile = NoFile)
           THEN "False" ELSE "True"
    /\ UNCHANGED <<keyPairRest, publicKeyFilePath, cachedPublicKey,
                   cachedFingerprint>>

\* Lines 269-315, NewKeyPair at the same paths: ssh-keygen refuses when the
\* private key file exists, else it writes a new pair of files.
NewKeyPairFiles ==
    /\ privateKeyFile = NoFile
    /\ \E privateKey \in PrivateKeys :
        /\ privateKeyFile' = privateKey
        /\ publicKeyFile' = PublicKeyOf(privateKey)
    /\ UNCHANGED <<keyPairRest, publicKeyFilePath, cachedPublicKey,
                   cachedFingerprint, keyPairResult>>

\* Someone removes the public key file.
PublicKeyFileRemoved ==
    /\ publicKeyFile # NoFile
    /\ publicKeyFile' = NoFile
    /\ UNCHANGED <<keyPairRest, privateKeyFile, publicKeyFilePath,
                   cachedPublicKey, cachedFingerprint, keyPairResult>>

NextKeyPair ==
    \/ GetPublicKey
    \/ ReadFingerprintAndKeyType
    \/ KeyPairDelete
    \/ NewKeyPairFiles
    \/ PublicKeyFileRemoved

SpecKeyPair == InitKeyPair /\ [][NextKeyPair]_vars

\* ------------------------------- ShutDownUploadThreads alone (SpecShutDown)
\* A run at the moment the main thread handles a ShutdownUploads event: the
\* scan and the folders' calls have returned, any of the tasks are still
\* queued, running or finished, and any of the workers have already returned
\* (a task's Run raised). From there only the main thread inside
\* ShutDownUploadThreads and the worker threads act.
RECURSIVE QueueOf(_)
QueueOf(tasks) ==
    IF tasks = {} THEN <<>>
    ELSE LET t == CHOOSE x \in tasks : \A y \in tasks : x[1] < y[1] \/ (x[1] = y[1] /\ x[2] <= y[2])
         IN  <<t>> \o QueueOf(tasks \ {t})

\* The pools a run can have with the given numbers of threads, of tasks
\* inside Run, and of tasks marked Failed (a worker returns early only when
\* a Run raised, and that Run marked its task Failed).
PoolsWith(threads, running, failedTasks) ==
    {pool \in [waiting : 0..threads, busy : {running}, returned : 0..threads] :
        PoolSize(pool) = threads /\ pool.returned <= failedTasks}

InitShutDown ==
    /\ maxUploadThreads = MaxUploadThreads
    /\ maxVerificationThreads = MaxVerificationThreads
    /\ testRunRunning = FALSE
    /\ mainLoopRunning = TRUE
    /\ testRun = FALSE
    /\ started = TRUE /\ canceled = FALSE /\ failed = FALSE
    /\ completed = FALSE /\ shuttingDown = FALSE
    /\ performingLookupsAndUploads = TRUE
    /\ uploadMethod \in {HTTP_POST, VIA_STAGING}
    /\ stagingOutcome = IF uploadMethod = VIA_STAGING THEN "approved" ELSE "absent"
    /\ numUploadWorkerThreads = ClampUploadThreads(uploadMethod, MaxUploadThreads)
    /\ numVerificationWorkerThreads = MaxVerificationThreads
    /\ finishedScanningForDatasetFolders = TRUE
    /\ finishedCountingVerifications = [f \in Folders |-> "set"]
    /\ foldersCount = NumFolders
    /\ numFiles = [f \in Folders |-> FilesPerFolder]
    /\ numVerificationsToBePerformed = NumFolders * FilesPerFolder
    /\ folderPc = [f \in Folders |-> "returned"]
    /\ experimentModel = [f \in Folders |-> "ok"]
    /\ datasetModel = [f \in Folders |-> "ok"]
    /\ scanPc = "done"
    /\ uploadsAcknowledged = 0
    /\ lastErrorMessage = "None"
    /\ statusMessage = StProgress
    /\ verification \in [Tasks -> {"queued", "InProgress"} \cup VerificationTerminal]
    /\ upload \in [Tasks -> {"none", "queued", "InProgress", "Completed", "Failed"}]
    /\ \A t \in Tasks : upload[t] # "none" => verification[t] = "NotFound"
    /\ verificationsQueue = QueueOf({t \in Tasks : verification[t] = "queued"})
    /\ uploadsQueue = QueueOf({t \in Tasks : upload[t] = "queued"})
    /\ verificationWorkers \in
           PoolsWith(numVerificationWorkerThreads,
                     Count(verification, {"InProgress"}), VerificationsFailed)
    /\ uploadWorkers \in
           PoolsWith(numUploadWorkerThreads,
                     Count(upload, {"InProgress"}), UploadsFailed(upload))
    /\ \E kind \in {"canceled", "completed", "failed"} :
        /\ events = <<ShutdownUploadsEvent(kind)>>
        /\ shouldAbort = (kind = "canceled")
        /\ abortIssued = (kind = "canceled")
        /\ numCompletedPosted = IF kind = "completed" THEN 1 ELSE 0
    /\ mainPc = "idle"
    /\ faults = 0
    /\ startedAtCompletion = {}
    /\ errorsPosted = [f \in Folders |-> 0]
    /\ warningsPosted = 0
    /\ initErrorsPosted = 0
    /\ shown = 0
    /\ expLock = 0
    /\ lockHeld = [l \in LockObjects |-> FALSE]
    /\ callPc = [f \in Folders |-> "notStarted"]
    /\ callLock = [f \in Folders |-> 0]
    /\ callFound = [f \in Folders |-> FALSE]
    /\ experimentExists = FALSE
    /\ createRequests = 0
    /\ releaseRaised = [f \in Folders |-> FALSE]
    /\ registeredAfterError = [f \in Folders |-> FALSE]
    /\ scpProcess = [t \in Tasks |->
           IF uploadMethod # VIA_STAGING THEN "none"
           ELSE IF upload[t] = "InProgress" THEN "running"
           ELSE IF upload[t] \in {"Completed", "Failed"} THEN "exited"
           ELSE "none"]
    /\ swept = FALSE
    /\ launchedLate = {}
    /\ cacheClosed = FALSE
    /\ showingErrorDialog = FALSE
    /\ dialogStack = <<>>
    /\ shownLog = <<>>
    /\ posted = 0
    /\ InitUtil

NextShutDown ==
    \/ ShutDownBegin
    \/ UploadWorkerGet
    \/ UploadWorkerRun
    \/ ShutDownJoinedUploadWorkers
    \/ VerificationWorkerGet
    \/ VerificationWorkerRun
    \/ ShutDownFinish

\* The threads are scheduled: a worker that can take an item from its queue
\* or whose Run can end does so, and the main thread goes on when its join
\* can return. Every task's Run terminates.
ShutDownFairness ==
    /\ WF_vars(ShutDownBegin)
    /\ WF_vars(UploadWorkerGet)
    /\ WF_vars(UploadWorkerRun)
    /\ WF_vars(ShutDownJoinedUploadWorkers)
    /\ WF_vars(VerificationWorkerGet)
    /\ WF_vars(VerificationWorkerRun)
    /\ WF_vars(ShutDownFinish)

SpecShutDown == InitShutDown /\ [][NextShutDown]_vars /\ ShutDownFairness

\* ================================================================ claims
\* A VerifyTask that is on the queue or with a worker: enqueued, and not
\* yet in a terminal state.
VerifyTaskPending(t) == verification[t] \in {"queued", "InProgress"}

\* C1: the controller never posts ShutdownUploads(completed=True), and never
\* sets completed, while a VerifyTask that has been enqueued, or that a
\* StartUploadsForFolder call already in progress is going to enqueue, has
\* not reached a terminal state. Stated over the folders whose call had
\* started when completion was posted or set: none of their VerifyTasks is
\* pending then or later.
C1_CompleteOnlyAfterVerifications ==
    \A f \in startedAtCompletion : \A i \in 1..FilesPerFolder :
        ~VerifyTaskPending(<<f, i>>)

\* The three conditions of the completion predicate, with the per-folder
\* flags read as flags.
AllConditionsHold ==
    /\ VerificationsCompleted = numVerificationsToBePerformed
    /\ finishedScanningForDatasetFolders
    /\ \A f \in Folders : finishedCountingVerifications[f] # "absent"
                              => finishedCountingVerifications[f] = "set"
    /\ \/ UploadsCompleted(upload) + UploadsFailed(upload)
              = UploadsRowCount(upload) + Len(uploadsQueue)
       \/ (testRun /\ uploadsAcknowledged
              = UploadsRowCount(upload) + Len(uploadsQueue))

\* C2: CountCompletedUploadsAndVerifications posts ShutdownUploads(completed=
\* True) only when all verifications are completed, the scan-complete flag
\* and every folder's finished-counting flag are set, and the uploads are
\* all processed (or, in a test run, acknowledged).
C2_PostOnlyWhenAllConditionsHold ==
    [][numCompletedPosted' > numCompletedPosted => AllConditionsHold']_vars

\* The run is in a terminal state: a call of ShutDownUploadThreads has set
\* one of the flags and has returned.
Terminal == (completed \/ canceled \/ failed) /\ mainPc = "idle"

\* The main thread handles a ShutdownUploads event in this step.
ShutDownCalled ==
    /\ Dispatch("ShutDownUploadThreads")
    /\ events' = Tail(events)

\* C3: ShutDownUploadThreads is idempotent: called again in a terminal state
\* (completed, canceled or failed), with any event, it leaves the completed,
\* canceled and failed flags and the final status message unchanged.
C3_ShutDownIdempotent ==
    [][(Terminal /\ ShutDownCalled)
          => UNCHANGED <<completed, canceled, failed, statusMessage>>]_vars

\* C4: within one run at most one ShutdownUploads(completed=True) event is
\* posted.
C4_CompletionPostedAtMostOnce == numCompletedPosted <= 1


\* The user's abort has been handled: ShutDownUploadThreads took the
\* canceled branch (lines 673-675) and has returned.
AbortHandled == canceled /\ mainPc = "idle"

\* C5: after a user abort has been handled by ShutDownUploadThreads, both
\* queues are empty (no unprocessed task, no unconsumed sentinel) and every
\* verification and upload worker thread has returned.
C5_AbortDrainsQueuesAndWorkers ==
    AbortHandled =>
        /\ verificationsQueue = <<>>
        /\ uploadsQueue = <<>>
        /\ Alive(verificationWorkers) = 0
        /\ Alive(uploadWorkers) = 0

\* Upload tasks enqueued: every task that was put on the uploads queue.
UploadsEnqueued ==
    Count(upload, {"queued", "InProgress", "Canceling"} \cup UploadTerminal)

\* C6: whenever a run reaches a terminal state, verifications completed +
\* verifications failed equals numVerificationsToBePerformed, and uploads
\* completed + failed + canceled equals the number of upload tasks enqueued.
C6_CountConservation ==
    Terminal =>
        /\ VerificationsCompleted + VerificationsFailed
               = numVerificationsToBePerformed
        /\ UploadsCompleted(upload) + UploadsFailed(upload)
               + UploadsCanceled(upload) = UploadsEnqueued


\* InitForUploads has returned (under SpecInit nothing else has run).
InitReturned == started /\ scanPc = "ScanFolders"

C8_MethodSelection ==
    InitReturned =>
        /\ stagingOutcome = "absent" =>
               /\ uploadMethod = HTTP_POST
               /\ events = <<ShowMessageDialogEvent(MsgCouldntDetermine,
                                                    ICON_WARNING)>>
        /\ stagingOutcome = "approved" =>
               /\ uploadMethod = VIA_STAGING
               /\ events = <<>>
        /\ stagingOutcome = "pending" =>
               /\ uploadMethod = HTTP_POST
               /\ events = <<ShowMessageDialogEvent(MsgApprovalRequired,
                                                    ICON_WARNING)>>

C8_Witness ==
    /\ InitReturned /\ stagingOutcome = "pending"
    /\ uploadMethod = HTTP_POST
    /\ Len(events) = 1 /\ events[1].icon = ICON_WARNING

\* C9: when the staging-access request raises, InitForUploads posts an error
\* message event and returns with neither pool started: no verification
\* worker thread and no upload worker thread is alive.
C9_SetupErrorStartsNoPool ==
    (InitReturned /\ stagingOutcome = "raises") =>
        /\ events = <<ShowMessageDialogEvent(MsgStagingError, ICON_ERROR)>>
        /\ Alive(verificationWorkers) = 0
        /\ Alive(uploadWorkers) = 0


\* What a failing StartUploadsForFolder(f) step must do and leave alone: one
\* error message event posted, no VerifyTask of f enqueued, the queues, the
\* pools and the run's flags untouched, the other folders' calls where they
\* were.
FailsCleanly(f) ==
    /\ \E message \in {MsgExperimentError, MsgDatasetError} :
           events' = Append(events, ShowMessageDialogEvent(message, ICON_ERROR))
    /\ \A i \in 1..FilesPerFolder : verification'[<<f, i>>] = "none"
    /\ UNCHANGED <<verificationsQueue, uploadsQueue, verificationWorkers,
                   uploadWorkers, flagVars>>
    /\ \A g \in Folders \ {f} : folderPc'[g] = folderPc[g]

\* The call for f returns on an exception: from the two lookups the only
\* return is through an exception handler, and from VerifyDatafiles the only
\* direct return is through the ConnectionError / ValueError handlers.
FailsInLookups(f) ==
    folderPc[f] \in {"experiment", "dataset"} /\ folderPc'[f] = "returned"
FailsInVerifyDatafiles(f) ==
    folderPc[f] = "verify" /\ folderPc'[f] = "returned"

\* C10: for every way StartUploadsForFolder(folder) can fail for one folder
\* (exception from get-or-create experiment, exception from create-dataset,
\* ConnectionError, ValueError) it posts an error message event, enqueues no
\* VerifyTask for that folder and returns; the pools stay running and the
\* calls for other folders proceed.
C10_EveryFolderFailurePostsError ==
    [][\A f \in Folders :
          (FailsInLookups(f) \/ FailsInVerifyDatafiles(f)) => FailsCleanly(f)]_vars

\* The GetOrCreateExperimentForFolder operations in flight.
InFlight == {f \in Folders : callPc[f] \in {"lookup", "create"}}

\* C11: across all concurrently running StartUploadsForFolder calls,
\* including calls still running when a new InitForUploads starts, at most
\* one GetOrCreateExperimentForFolder operation is in flight at any time.
C11_OneGetOrCreateInFlight == Cardinality(InFlight) <= 1

\* C12: when StartUploadsForFolder runs concurrently for folders that share
\* one experiment title and the experiment does not yet exist on the server,
\* at most one create-experiment request is issued.
C12_OneCreateExperimentRequest == createRequests <= 1

\* A VerifyTask of folder f has been enqueued.
HasEnqueued(f) == \E i \in 1..FilesPerFolder : verification[<<f, i>>] # "none"

TimesQueued(queue, t) == Cardinality({k \in 1..Len(queue) : queue[k] = t})

StaysAliveAfterRun(pool, poolAfter) ==
    (poolAfter.busy < pool.busy /\ ~shuttingDown) => Alive(poolAfter) = Alive(pool)

\* C15: a failure of an individual task never stops the pool: when a task's
\* Run raises in VerificationWorker or UploadWorker, the worker thread stays
\* alive and takes the next task; task failures do not reduce the number of
\* live workers.
C15_TaskFailureKeepsWorker ==
    [][/\ StaysAliveAfterRun(verificationWorkers, verificationWorkers')
       /\ StaysAliveAfterRun(uploadWorkers, uploadWorkers')]_vars

\* A ShutdownUploads(canceled=True) event is still waiting to be handled.
CancelPending ==
    \E k \in 1..Len(events) : events[k] = ShutdownUploadsEvent("canceled")

\* C16: a user abort issued after InitForUploads and before the run has
\* reached a terminal state always ends with the controller canceled
\* (canceled set, completed and failed not set) and the final message "Data
\* scans and uploads were canceled.": once the abort's event has been
\* handled and the main thread is idle again, that is the state.
C16_AbortEndsCanceled ==
    (abortIssued /\ ~CancelPending /\ mainPc = "idle") =>
        /\ canceled /\ ~completed /\ ~failed
        /\ statusMessage = StCanceled

\* The messages posted by the handlers of lines 471-478 and 485-492.
LookupErrorsPosted ==
    Cardinality({f \in Folders : errorsPosted[f] > 0})

\* C17: when experiment acquisition or dataset creation in
\* StartUploadsForFolder fails with Unauthorized or IncompatibleVersion, the
\* error is fatal to the run: a single message is posted, no VerifyTask is
\* enqueued for any folder whose call begins afterwards, and the run drains
\* to the failed terminal state.
C17_LookupErrorIsFatal ==
    /\ \A f \in Folders : errorsPosted[f] <= 1
    /\ \A f \in Folders : registeredAfterError[f] =>
           \A i \in 1..FilesPerFolder : verification[<<f, i>>] = "none"
    /\ (LookupErrorsPosted > 0 /\ Terminal) => failed

\* Nothing is left to do but for the user: no event waits for the main
\* thread, no call of StartUploadsForFolder is in progress, no worker holds
\* a task, and no waiting worker has a task to take.
Quiescent ==
    /\ events = <<>> /\ mainPc = "idle"
    /\ \A f \in Folders : folderPc[f] \in {"notStarted", "returned"}
    /\ verificationWorkers.busy = 0 /\ uploadWorkers.busy = 0
    /\ verificationsQueue = <<>> \/ verificationWorkers.waiting = 0
    /\ uploadsQueue = <<>> \/ uploadWorkers.waiting = 0

\* C18: when the folder scan raises InvalidFolderStructure the scan stops, a
\* dialog is shown, and the run then terminates without any further action by
\* the user: once the enqueued work has drained, the controller is in a
\* terminal state with its workers shut down.
C18_ScanFailureTerminatesRun ==
    (scanPc = "raised" /\ Quiescent) =>
        /\ Terminal
        /\ Alive(verificationWorkers) = 0 /\ Alive(uploadWorkers) = 0

\* C19: in ShutDownUploadThreads for a run using the staged method, the
\* sweep of stray scp/ssh processes (CleanUpScpAndSshProcesses) is performed
\* only after every upload worker thread has been joined.
C19_SweepAfterUploadWorkersJoined ==
    [][(~swept /\ swept') => Alive(uploadWorkers) = 0]_vars

\* ShutDownUploadThreads has returned from handling an abort.
ReturnedAfterAbort == canceled /\ ~shuttingDown /\ mainPc = "idle"

EmitsFinalStatus ==
    \/ mainPc = "joinVerificationWorkers" /\ mainPc' = "idle"
    \/ /\ Dispatch("ShutDownUploadThreads") /\ ~ShutDownGuard
       /\ ~performingLookupsAndUploads /\ events' = Tail(events)

\* The status string the terminal state calls for.
StatusOfTerminalState ==
    IF StartedFolders = {} THEN StNoFolders
    ELSE IF failed THEN StFailed
    ELSE IF canceled THEN StCanceled
    ELSE IF completed /\ UploadsFailed(upload) > 0 THEN StCompletedWithFailed
    ELSE IF completed /\ UploadsCompleted(upload) > 0 THEN StSuccess
    ELSE IF completed THEN StNoNewFiles
    ELSE StNone

\* C21: the final status string emitted by ShutDownUploadThreads is
\* determined by the terminal state: failed, canceled, completed with failed
\* uploads, completed successfully, no new files, or (no folder ever started
\* uploads) no folders found with the run marked completed; one of these
\* strings is emitted per shutdown.
C21_FinalStatusFollowsTerminalState ==
    [][EmitsFinalStatus =>
          /\ statusMessage' = StatusOfTerminalState'
          /\ (StartedFolders = {}) => completed']_vars

\* This step handles a ShowMessageDialog event, and shows its dialog.
HandlesMessageEvent == events # <<>> /\ events' = Tail(events)
ShowsDialog == Len(shownLog') = Len(shownLog) + 1

\* An error dialog is inside ShowModal().
ErrorDialogShowing ==
    \E k \in 1..Len(dialogStack) : dialogStack[k].icon = ICON_ERROR

\* The message shown last in the current run, if any.
ShownLastInRun(msg) ==
    /\ shownLog # <<>>
    /\ shownLog[Len(shownLog)] = <<expLock, msg>>

\* C22: duplicate messages are suppressed: an event whose message equals the
\* last message shown is dropped, an event arriving while an error dialog is
\* showing is dropped, no message is shown twice in a row within a run, and
\* after InitForUploads has reset the remembered message the first message
\* of the run is shown.
C22_DuplicateMessagesSuppressed ==
    [][HandlesMessageEvent =>
          /\ Head(events).kind = lastErrorMessage => ~ShowsDialog
          /\ ErrorDialogShowing => ~ShowsDialog
          /\ ShownLastInRun(Head(events).kind) => ~ShowsDialog
          /\ (lastErrorMessage = "None" /\ ~ErrorDialogShowing) => ShowsDialog]_vars

\* This step is the main thread handling an UploadDatafile event (of a file
\* that needs uploading or re-uploading): the event leaves the queue, and
\* the completion check may post its event.
HandlesUploadDatafile ==
    /\ Dispatch("UploadDatafile")
    /\ events' \in {Tail(events),
                    Append(Tail(events), ShutdownUploadsEvent("completed"))}

\* C23: in test-run mode, for every event handled by UploadDatafile no upload
\* task is created, enqueued or run; the only effects are that
\* uploadsAcknowledged increases by exactly 1 and the completion check is
\* invoked (with the count already increased).
C23_TestRunOnlyAcknowledges ==
    [][(testRun /\ HandlesUploadDatafile) =>
          /\ uploadsAcknowledged' = uploadsAcknowledged + 1
          /\ \A t \in Tasks : upload'[t] = "none" /\ scpProcess'[t] = "none"
          /\ UNCHANGED <<uploadsQueue, uploadWorkers, verification,
                         verificationsQueue, verificationWorkers, flagVars,
                         numVerificationsToBePerformed>>
          /\ (events' # Tail(events)) <=>
                 (~(completed \/ canceled) /\
                  CompletionPredicate(upload, uploadsQueue,
                                      uploadsAcknowledged + 1))]_vars

\* A test run in which UploadDatafile has acknowledged a file.
C23_Witness ==
    /\ testRun /\ uploadsAcknowledged >= 1
    /\ \E t \in Tasks : verification[t] = "NotFound"

\* An instrument of that name exists in the facility.
InstrumentExists(name) == \E id \in InstrumentIds : instruments[id] = name

\* This step is the call of RenameInstrument.
RenameCalled == renameResult = "notCalled" /\ renameResult' # "notCalled"

\* C24: RenameInstrument(facility, old, new): if an instrument named new
\* exists the call fails with DuplicateKey, no PUT is issued and the old
\* instrument keeps its name; if new does not exist exactly one PUT is issued,
\* for the old instrument; if the facility or the old instrument is not
\* found it fails without a PUT.
C24_RenameInstrument ==
    [][RenameCalled =>
          IF ~facilityFound \/ ~InstrumentExists(oldInstrumentName)
          THEN /\ renameResult' \notin {"ok", "DuplicateKey"}
               /\ UNCHANGED <<instruments, putRequests>>
          ELSE IF InstrumentExists(newInstrumentName)
          THEN /\ renameResult' = "DuplicateKey"
               /\ UNCHANGED <<instruments, putRequests>>
          ELSE /\ putRequests' = putRequests + 1
               /\ \A id \in InstrumentIds :
                      instruments[id] # oldInstrumentName =>
                          instruments'[id] = instruments[id]
               /\ renameResult' = "ok" =>
                      /\ InstrumentExists(newInstrumentName)'
                      /\ ~InstrumentExists(oldInstrumentName)']_vars

\* The rename to a name already in use was refused, with both instruments
\* still on the server under their names.
C24_Witness ==
    /\ renameResult = "DuplicateKey" /\ putRequests = 0
    /\ oldInstrumentName # newInstrumentName
    /\ InstrumentExists(oldInstrumentName) /\ InstrumentExists(newInstrumentName)

\* The scan has handled every user directory.
ScanFinished == usersModel = userDirs

InvokesCheckAfterScan == scanPc = "FinishedScanning" /\ scanPc' = "done"

\* C26: FinishedScanningForDatasetFolders sets the scan-complete flag and
\* invokes the completion check once, and at the moment it invokes the check
\* every folder in the folders model has its "finished counting" flag set
\* (not merely created).
C26_CheckInvokedWithEveryFlagSet ==
    [][InvokesCheckAfterScan =>
          /\ finishedScanningForDatasetFolders
          /\ \A f \in 1..foldersCount :
                 finishedCountingVerifications[f] = "set"]_vars

\* VerifyTasks enqueued: every task that was put on the verifications queue.
VerifyTasksEnqueued == Cardinality({t \in Tasks : verification[t] # "none"})

\* No call of StartUploadsForFolder is running.
EveryCallReturned ==
    \A f \in Folders : folderPc[f] \in {"notStarted", "returned"}

\* C27: a call of StartUploadsForFolder that increments the counter by the
\* folder's file count then enqueues one VerifyTask per file, so once the
\* calls have returned numVerificationsToBePerformed equals the number of
\* VerifyTasks enqueued, also when shutdown or abort begins during a call.
C27_CounterEqualsTasksEnqueued ==
    EveryCallReturned => numVerificationsToBePerformed = VerifyTasksEnqueued

\* ShutDownUploadThreads has returned with every worker joined.
ShutDownReturned ==
    /\ mainPc = "idle" /\ ~performingLookupsAndUploads /\ ~shuttingDown
    /\ Alive(uploadWorkers) = 0 /\ Alive(verificationWorkers) = 0

\* C28: ShutDownUploadThreads terminates: every task's Run terminating, one
\* sentinel per worker on each queue makes every upload worker and every
\* verification worker return, so both join loops finish, for any number of
\* tasks still queued and any number of workers that already exited.
C28_ShutDownTerminates == <>ShutDownReturned

\* The call has returned although tasks were queued ahead of the sentinels
\* and a worker had exited before them: a task is still queued and a
\* sentinel was left on the uploads queue.
C28_Witness ==
    /\ ShutDownReturned
    /\ \E t \in Tasks : upload[t] = "queued"
    /\ \E i \in DOMAIN uploadsQueue : uploadsQueue[i] = Sentinel

\* This step issued a mkdir, and the mkdir it issued.
IssuesMkdir == Len(mkdirLog') = Len(mkdirLog) + 1
IssuedMkdir == mkdirLog'[Len(mkdirLog')]
StartsScp == Len(scpLog') = Len(scpLog) + 1

\* C29: for staged uploads made one after the other, the remote mkdir for a
\* directory is issued only if that directory is not yet recorded in
\* REMOTE_DIRS_CREATED; a directory is recorded only after its mkdir exited
\* with status 0; a failed mkdir raises SshException, records nothing and
\* starts no scp. So a directory's mkdir succeeds at most once.
C29_RemoteMkdirOncePerPath ==
    [][/\ IssuesMkdir => IssuedMkdir[1] \notin REMOTE_DIRS_CREATED
       /\ \A d \in REMOTE_DIRS_CREATED' \ REMOTE_DIRS_CREATED :
              IssuesMkdir /\ IssuedMkdir = <<d, 0>>
       /\ (IssuesMkdir /\ IssuedMkdir[2] # 0) =>
              /\ uploadFileResult' = "SshException"
              /\ REMOTE_DIRS_CREATED' = REMOTE_DIRS_CREATED
              /\ ~StartsScp
       /\ \A d \in RemoteDirs :
              Cardinality({i \in DOMAIN mkdirLog' : mkdirLog'[i] = <<d, 0>>}) <= 1
      ]_vars

\* A mkdir failed, a later one for the same directory succeeded, and a
\* later upload to that directory started its scp with no mkdir.
C29_Witness ==
    \E d \in RemoteDirs :
        /\ mkdirLog = <<<<d, 255>>, <<d, 0>>>>
        /\ d \in REMOTE_DIRS_CREATED
        /\ scpLog = <<d>>

\* This step closes the cache of verified datafiles.
ClosesCache == ~cacheClosed /\ cacheClosed'

\* C30: in ShutDownUploadThreads the verified-files cache is closed only
\* after all upload and verification workers have been joined, so no worker
\* can use the cache after it has been closed.
C30_CacheClosedAfterWorkersJoined ==
    [][ClosesCache =>
          Alive(uploadWorkers) = 0 /\ Alive(verificationWorkers) = 0]_vars

\* C31: if the upload has been canceled by the time the function reaches
\* its cancel check, no scp subprocess is launched, no ScpException or
\* other failure is raised, and the final progress callback reporting
\* bytesUploaded = fileSize is not made.
C31_CanceledBeforeCopy ==
    [][cancelCheck' = "canceled" =>
          /\ scpLog' = scpLog
          /\ uploadFileResult' \in {"returned"}
          /\ finalProgressCalls' = finalProgressCalls]_vars

\* A call created its remote directory, found the upload canceled and
\* returned: no scp, no progress call.
C31_Witness ==
    /\ cancelCheck = "canceled"
    /\ uploadFileResult = "returned"
    /\ Len(mkdirLog) = 1 /\ mkdirLog[1][2] = 0
    /\ scpLog = <<>>
    /\ finalProgressCalls = 0

\* C32: KeyPair.ReadFingerprintAndKeyType: when the private key file
\* exists and the public key file does not, after the call the public key
\* file exists and holds the non-empty public key matching the private key;
\* when the private key file does not exist the call raises
\* PrivateKeyDoesNotExist and creates no file.
C32_PublicKeyFileGenerated ==
    [][ReadFingerprintAndKeyType =>
          /\ (privateKeyFile # NoFile /\ publicKeyFile = NoFile) =>
                 publicKeyFile' = PublicKeyOf(privateKeyFile)
          /\ privateKeyFile = NoFile =>
                 /\ keyPairResult' = "PrivateKeyDoesNotExist"
                 /\ publicKeyFile' = publicKeyFile]_vars

\* C33: in every reachable state of the controller at most one of the
\* flags completed, canceled and failed is set.
C33_AtMostOneTerminalFlag ==
    /\ ~(completed /\ canceled)
    /\ ~(completed /\ failed)
    /\ ~(canceled /\ failed)

\* -------------------------------------- OnRefresh and ScanDataDirs (SpecRefresh)
\* MyData.py OnRefresh, 333-559: each call of the user (toolbar, menu,
\* schedule) is one element of ScanThreads, with the settings validation and
\* the ScanDataDirs thread it starts. The folders controller is seen through
\* its worker threads, its completed and shuttingDown flags and the
\* application's PerformingLookupsAndUploads flag. The text of the status
\* bar is left out.
refreshRest == <<settingsVars, testRun, started, canceled, failed, poolVars,
                 countVars, lastErrorMessage, statusMessage,
                 verificationsQueue, uploadsQueue, verificationWorkers,
                 uploadWorkers, scanPc, stagingOutcome, folderVars, mainPc,
                 events, faults, verification, upload, historyVars, lockVars,
                 abortVars, fatalVars, scpVars, cacheVars, dialogVars,
                 renameVars, scanVars, mkdirVars, keyPairVars, validationVars>>

\* The next call the user makes.
NextRefreshCall(t) ==
    /\ scanThreadPc[t] = "notCalled"
    /\ \A u \in ScanThreads : u < t => scanThreadPc[u] # "notCalled"

\* Line 354, for a call that is not the completion of a shutdown or of a
\* settings validation.
RefreshMustShutDownFirst == scanningFolders \/ performingLookupsAndUploads

\* Lines 354-370: a scan or a run is under way; the call posts
\* ShutdownForRefreshEvent and returns.
OnRefreshShutdownForRefresh ==
    /\ \E t \in ScanThreads : NextRefreshCall(t)
    /\ RefreshMustShutDownFirst
    /\ shutdownForRefreshPosted' = TRUE
    /\ UNCHANGED <<refreshRest, shouldAbort, performingLookupsAndUploads,
                   completed, shuttingDown, scanThreadPc,
                   scanningFoldersThreadingLock, scanningFolders,
                   workerThreadsOf, verificationWorkerThreads>>

\* Lines 354, 372 and 378-463 with needToValidateSettings true: the call
\* starts the ValidateSettingsWorker thread and returns.
OnRefreshValidateSettings(t) ==
    /\ NextRefreshCall(t)
    /\ ~RefreshMustShutDownFirst
    /\ shuttingDown' = FALSE
    /\ scanThreadPc' = [scanThreadPc EXCEPT ![t] = "validating"]
    /\ UNCHANGED <<refreshRest, shouldAbort, performingLookupsAndUploads,
                   completed, scanningFoldersThreadingLock, scanningFolders,
                   workerThreadsOf, verificationWorkerThreads,
                   shutdownForRefreshPosted>>

\* Lines 425-441: the validation worker found the settings invalid.
ValidateSettingsInvalid(t) ==
    /\ scanThreadPc[t] = "validating"
    /\ scanningFolders' = FALSE
    /\ scanThreadPc' = [scanThreadPc EXCEPT ![t] = "invalidSettings"]
    /\ UNCHANGED <<refreshRest, shouldAbort, performingLookupsAndUploads,
                   completed, shuttingDown, scanningFoldersThreadingLock,
                   workerThreadsOf, verificationWorkerThreads,
                   shutdownForRefreshPosted>>

\* Lines 342-372, 465 and 552-559: OnRefresh starts the ScanDataDirs thread,
\* either called with needToValidateSettings false while nothing is under
\* way, or called again by the SettingsValidationCompleteEvent of its
\* validation worker, for which line 345 makes shutdownForRefreshComplete
\* true and the test of line 354 is not made.
OnRefreshStartScanDataDirs(t) ==
    /\ \/ NextRefreshCall(t) /\ ~RefreshMustShutDownFirst
       \/ scanThreadPc[t] = "validating"
    /\ shuttingDown' = FALSE
    /\ shouldAbort' = FALSE
    /\ scanThreadPc' = [scanThreadPc EXCEPT ![t] = "started"]
    /\ UNCHANGED <<refreshRest, performingLookupsAndUploads, completed,
                   scanningFoldersThreadingLock, scanningFolders,
                   workerThreadsOf, verificationWorkerThreads,
                   shutdownForRefreshPosted>>

\* MyData.py 484 and folders.py 340-350: ScanDataDirs enters InitForUploads,
\* which clears completed and replaces the verifications queue and the list
\* of verification worker threads.
ScanDataDirsInitForUploads(t) ==
    /\ scanThreadPc[t] = "started"
    /\ completed' = FALSE
    /\ verificationWorkerThreads' = t
    /\ scanThreadPc' = [scanThreadPc EXCEPT ![t] = "InitForUploads"]
    /\ UNCHANGED <<refreshRest, shouldAbort, performingLookupsAndUploads,
                   shuttingDown, scanningFoldersThreadingLock, scanningFolders,
                   workerThreadsOf, shutdownForRefreshPosted>>

\* folders.py 353-428: InitForUploads starts its worker threads and returns.
ScanDataDirsInitForUploadsReturns(t) ==
    /\ scanThreadPc[t] = "InitForUploads"
    /\ workerThreadsOf' = [workerThreadsOf EXCEPT ![t] = "alive"]
    /\ scanThreadPc' = [scanThreadPc EXCEPT ![t] = "acquire"]
    /\ UNCHANGED <<refreshRest, shouldAbort, performingLookupsAndUploads,
                   completed, shuttingDown, scanningFoldersThreadingLock,
                   scanningFolders, verificationWorkerThreads,
                   shutdownForRefreshPosted>>

\* MyData.py 493-494: acquire() blocks while another thread holds the lock.
ScanDataDirsAcquire(t) ==
    /\ scanThreadPc[t] = "acquire"
    /\ scanningFoldersThreadingLock = 0
    /\ scanningFoldersThreadingLock' = t
    /\ scanningFolders' = TRUE
    /\ scanThreadPc' = [scanThreadPc EXCEPT ![t] = "ScanFolders"]
    /\ UNCHANGED <<refreshRest, shouldAbort, performingLookupsAndUploads,
                   completed, shuttingDown, workerThreadsOf,
                   verificationWorkerThreads, shutdownForRefreshPosted>>

\* MyData.py 497-501 and 515-550: ScanFolders returns, having found dataset
\* folders (and handed them to StartUploadsForFolder) or none; the flag is
\* cleared, the lock released, and ScanDataDirs returns.
ScanDataDirsReturns(t) ==
    /\ scanThreadPc[t] = "ScanFolders"
    /\ \E foundFolders \in BOOLEAN :
           performingLookupsAndUploads' =
               (performingLookupsAndUploads \/ foundFolders)
    /\ scanningFolders' = FALSE
    /\ scanningFoldersThreadingLock' = 0
    /\ scanThreadPc' = [scanThreadPc EXCEPT ![t] = "returned"]
    /\ UNCHANGED <<refreshRest, shouldAbort, completed, shuttingDown,
                   workerThreadsOf, verificationWorkerThreads,
                   shutdownForRefreshPosted>>

\* MyData.py 497 and 503-513: ScanFolders raises InvalidFolderStructure; the
\* handler shows the message and returns.
ScanDataDirsInvalidFolderStructure(t) ==
    /\ scanThreadPc[t] = "ScanFolders"
    /\ scanThreadPc' = [scanThreadPc EXCEPT ![t] = "raised"]
    /\ UNCHANGED <<refreshRest, shouldAbort, performingLookupsAndUploads,
                   completed, shuttingDown, scanningFoldersThreadingLock,
                   scanningFolders, workerThreadsOf,
                   verificationWorkerThreads, shutdownForRefreshPosted>>

\* folders.py 640-749, ShutDownUploadThreads handling a ShutdownUploadsEvent
\* of the run whose threads the controller holds: the "no folders" return of
\* lines 650-665, or the full shutdown, which joins the threads of the
\* controller's lists (687-694) and clears the flags (736-745).
RefreshShutDownUploadThreads ==
    /\ verificationWorkerThreads # 0
    /\ scanThreadPc[verificationWorkerThreads] \in
           {"acquire", "ScanFolders", "returned", "raised"}
    /\ ~shuttingDown /\ ~completed
    /\ IF ~performingLookupsAndUploads
       THEN /\ completed' = TRUE
            /\ UNCHANGED <<workerThreadsOf, performingLookupsAndUploads>>
       ELSE /\ workerThreadsOf' =
                   [workerThreadsOf EXCEPT ![verificationWorkerThreads] = "joined"]
            /\ performingLookupsAndUploads' = FALSE
            /\ completed' = TRUE
    /\ shouldAbort' = FALSE
    /\ shuttingDown' = FALSE
    /\ UNCHANGED <<refreshRest, scanThreadPc, scanningFoldersThreadingLock,
                   scanningFolders, verificationWorkerThreads,
                   shutdownForRefreshPosted>>

NextRefresh ==
    \/ OnRefreshShutdownForRefresh
    \/ \E t \in ScanThreads :
        \/ OnRefreshValidateSettings(t)
        \/ ValidateSettingsInvalid(t)
        \/ OnRefreshStartScanDataDirs(t)
        \/ ScanDataDirsInitForUploads(t)
        \/ ScanDataDirsInitForUploadsReturns(t)
        \/ ScanDataDirsAcquire(t)
        \/ ScanDataDirsReturns(t)
        \/ ScanDataDirsInvalidFolderStructure(t)
    \/ RefreshShutDownUploadThreads

SpecRefresh == Init /\ [][NextRefresh]_vars

\* ScanDataDirs of thread t has returned, either way.
ScanDataDirsReturned(t) == scanThreadPc[t] \in {"returned", "raised"}

\* C34: whenever ScanDataDirs has returned, by normal completion or after an
\* InvalidFolderStructure exception from the scan, the thread no longer
\* holds scanningFoldersThreadingLock, and the scanningFolders flag is
\* cleared unless another thread is scanning.
C34_LockReleasedAndFlagClearedOnReturn ==
    \A t \in ScanThreads :
        ScanDataDirsReturned(t) =>
            /\ scanningFoldersThreadingLock # t
            /\ (\A u \in ScanThreads : scanThreadPc[u] # "ScanFolders")
                   => ~scanningFolders

\* Every VerifyTask and every upload task that was enqueued has reached a
\* terminal state.
EveryTaskTerminal ==
    \A t \in Tasks :
        /\ verification[t] \in VerificationTerminal \cup {"none"}
        /\ upload[t] \in UploadTerminal \cup {"none"}

\* C35: liveness of completion, in the form a finite run can refute: when
\* the scan has finished (FinishedScanningForDatasetFolders has been called
\* and has returned), every enqueued VerifyTask and upload task is in a
\* terminal state, the user has not aborted, no fatal error has ended the
\* run as failed, and nothing is left to do but for the user, then
\* ShutdownUploads(completed=True) has been posted and the controller is in
\* the completed state, also when StartUploadsForFolder failed or returned
\* early for some folders.
C35_CompletionReached ==
    (scanPc = "done" /\ Quiescent /\ EveryTaskTerminal
         /\ ~abortIssued /\ ~failed)
        => (completed /\ numCompletedPosted >= 1)

\* C36: whenever ShutDownUploadThreads returns after passing its entry
\* guard, on either exit path (the early "no folders were found" return or
\* the full shutdown), no verification or upload worker thread started by
\* the run's InitForUploads is still alive or blocked on a queue.
C36_NoWorkerAliveWhenShutDownReturns ==
    [][EmitsFinalStatus =>
          /\ Alive(verificationWorkers') = 0
          /\ Alive(uploadWorkers') = 0]_vars

\* C37: after a run has reached a terminal state (ShutDownUploadThreads has
\* returned, having cleared the shuttingDown and shouldAbort flags), no
\* StartUploadsForFolder call of that run, still in progress or starting
\* late, increments numVerificationsToBePerformed or enqueues a VerifyTask.
C37_NoCountingAfterTerminalState ==
    [][(Terminal /\ ~shuttingDown) =>
          /\ numVerificationsToBePerformed' = numVerificationsToBePerformed
          /\ VerifyTasksEnqueued' = VerifyTasksEnqueued]_vars

\* In this step the ScanDataDirs thread t enters InitForUploads.
EntersInitForUploads(t) ==
    scanThreadPc[t] = "started" /\ scanThreadPc'[t] = "InitForUploads"

\* C38: at most one run is initialised at a time: for any interleaving of
\* OnRefresh calls, when a ScanDataDirs thread enters InitForUploads no other
\* ScanDataDirs thread is inside InitForUploads and no worker thread created
\* by an earlier InitForUploads is still alive.
C38_OneRunInitialisedAtATime ==
    [][\A t \in ScanThreads :
          EntersInitForUploads(t) =>
              \A u \in ScanThreads \ {t} :
                  /\ scanThreadPc[u] # "InitForUploads"
                  /\ workerThreadsOf[u] # "alive"]_vars

\* ------------------------------------- test runs in one process (SpecTestRuns)
\* MyData.py 313-331, OnTestRunFromToolbar, for a further test run after the
\* run before has ended and nothing of it is left to do: the toolbar buttons
\* are enabled again (folders.py 656, 736). The handler sets TestRunRunning
\* and clears shouldAbort; through ApplySchedule it reaches OnRefresh, which
\* clears shuttingDown (372) and shouldAbort (465) and starts the
\* ScanDataDirs thread (552-556), whose first statement is InitForUploads
\* (484). The FoldersController object is the one made at start-up: none
\* of its fields is written on this path. ScanFolders scans the data
\* directory anew, so the folders model starts empty; the model's records
\* of what happened within one run start again.
OnTestRunFromToolbar ==
    /\ \E t \in ScanThreads :
        /\ NextRefreshCall(t)
        /\ t < MaxRuns
        /\ scanThreadPc' = [scanThreadPc EXCEPT ![t] = "started"]
    /\ Terminal /\ Quiescent /\ scanPc \in {"done", "raised"}
    /\ testRunRunning' = TRUE
    /\ shouldAbort' = FALSE
    /\ shuttingDown' = FALSE
    /\ scanPc' = "InitForUploads"
    /\ foldersCount' = 0
    /\ numFiles' = [f \in Folders |-> 0]
    /\ folderPc' = [f \in Folders |-> "notStarted"]
    /\ experimentModel' = [f \in Folders |-> "unset"]
    /\ datasetModel' = [f \in Folders |-> "unset"]
    /\ numCompletedPosted' = 0
    /\ startedAtCompletion' = {}
    /\ errorsPosted' = [f \in Folders |-> 0]
    /\ warningsPosted' = 0
    /\ initErrorsPosted' = 0
    /\ shown' = 0
    /\ abortIssued' = FALSE
    /\ registeredAfterError' = [f \in Folders |-> FALSE]
    /\ scpProcess' = [t \in Tasks |-> "none"]
    /\ swept' = FALSE
    /\ launchedLate' = {}
    /\ cacheClosed' = FALSE
    /\ UNCHANGED <<maxUploadThreads, maxVerificationThreads, mainLoopRunning,
                   performingLookupsAndUploads, testRun, started, canceled,
                   failed, completed, poolVars, countVars, lastErrorMessage,
                   statusMessage, verificationsQueue, uploadsQueue,
                   verificationWorkers, uploadWorkers, stagingOutcome,
                   mainPc, events, faults, verification, upload, lockVars,
                   dialogVars, renameVars, scanVars, mkdirVars, keyPairVars,
                   validationVars, scanningFoldersThreadingLock,
                   scanningFolders, workerThreadsOf,
                   verificationWorkerThreads, shutdownForRefreshPosted>>

\* Test runs in which nothing goes wrong and the user does not press Stop
\* (the allowance of such things is used up from the start): the first run
\* is a test run as well.
InitTestRuns ==
    /\ maxUploadThreads = MaxUploadThreads
    /\ maxVerificationThreads = MaxVerificationThreads
    /\ testRunRunning = TRUE
    /\ mainLoopRunning = TRUE
    /\ InitControllerAfter(MaxFaults)
    /\ InitUtil

NextTestRuns ==
    \/ InitForUploads
    \/ ScanFoldersAddFolder
    \/ FinishedScanningSetFlag
    \/ FinishedScanningCount
    \/ \E f \in Folders : StartUploadsRegister(f)
    \/ \E f \in Folders : StartUploadsCount(f)
    \/ \E f \in Folders : StartUploadsExperiment(f)
    \/ \E f \in Folders : StartUploadsDataset(f)
    \/ \E f \in Folders : StartUploadsVerifyDatafiles(f)
    \/ \E f \in Folders : StartUploadsFinish(f)
    \/ VerificationWorkerGet
    \/ VerificationWorkerRun
    \/ UploadWorkerGet
    \/ HandleCountEvent
    \/ UploadDatafile
    \/ ShowMessageDialog
    \/ ShutDownRefused
    \/ ShutDownNoFolders
    \/ ShutDownBegin
    \/ ShutDownJoinedUploadWorkers
    \/ ShutDownFinish
    \/ OnTestRunFromToolbar

SpecTestRuns == InitTestRuns /\ [][NextTestRuns]_vars

\* The NeedsUpload / NeedsReupload events UploadDatafile has handled since
\* the run's InitForUploads: those posted by the run's lookups, less those
\* still waiting for the main thread.
UploadDatafileEventsHandled ==
    Count(verification, {"NotFound"})
        - Cardinality({i \in 1..Len(events) :
                           events[i].handler = "UploadDatafile"})

\* C39: in every state of a test run (from the return of the run's
\* InitForUploads on), uploadsAcknowledged equals the number of NeedsUpload /
\* NeedsReupload events handled by UploadDatafile since that InitForUploads;
\* in particular it is 0 immediately after InitForUploads, also for a second
\* test run in the same process.
C39_AcknowledgedCountsThisRun ==
    (testRun /\ scanPc # "InitForUploads")
        => uploadsAcknowledged = UploadDatafileEventsHandled

\* ------------------------------------ SettingsModel.Validate (SpecValidate)
\* SettingsModel.py 226-510: one SettingsModel whose fields the settings
\* dialog sets, and Validate() calls on it. Of the fields three are kept;
\* the checks of the others and of the server (lines 238-487) are one
\* outcome of the call.
validateRest == <<controllerVars, lockVars, abortVars, fatalVars, scpVars,
                  cacheVars, dialogVars, renameVars, scanVars, mkdirVars,
                  keyPairVars, refreshVars>>

InstrumentNameTexts == {"", " ", "Test Instrument"}
DataDirectoryTexts == {"", "/data"}
ContactEmailTexts == {"", "not an email", "user@example.org"}

\* str.strip() on these texts.
Strip(text) == IF text \in {"", " "} THEN "" ELSE text

\* validate_email(), line 483.
ValidateEmail(email) == email = "user@example.org"

MsgInstrumentName == "Please enter a valid instrument name."
MsgDataDirectory == "Please enter a valid data directory."
MsgContactEmail == "Please enter a valid contact email."
MsgMyTardisUrl == "Please enter a valid MyTardis URL."
MsgTraceback == "traceback.format_exc()"

\* What the checks of lines 238-481 on the other fields and on the server
\* come to.
OtherChecks == {"pass", "mytardis_url", "exception",
                "IncompatibleMyTardisVersion"}

\* Lines 101-102, 122-123, 128-129: the setters.
SetInstrumentName(instrumentName) ==
    /\ instrument_name' = instrumentName
    /\ instrument_name' # instrument_name
    /\ UNCHANGED <<validateRest, data_directory, contact_email, validation,
                   validateReturned>>

SetDataDirectory(dataDirectory) ==
    /\ data_directory' = dataDirectory
    /\ data_directory' # data_directory
    /\ UNCHANGED <<validateRest, instrument_name, contact_email, validation,
                   validateReturned>>

SetContactEmail(contactEmail) ==
    /\ contact_email' = contactEmail
    /\ contact_email' # contact_email
    /\ UNCHANGED <<validateRest, instrument_name, data_directory, validation,
                   validateReturned>>

\* Lines 227-487: the first check that fails, as the SettingsValidation it
\* makes; SettingsValidation(True) when none fails.
FirstFailedCheck(other) ==
    IF Strip(instrument_name) = ""
    THEN SettingsValidation(FALSE, MsgInstrumentName, "instrument_name")
    ELSE IF Strip(data_directory) = ""
    THEN SettingsValidation(FALSE, MsgDataDirectory, "data_directory")
    ELSE IF Strip(contact_email) = ""
    THEN SettingsValidation(FALSE, MsgContactEmail, "contact_email")
    ELSE IF other = "mytardis_url"
    THEN SettingsValidation(FALSE, MsgMyTardisUrl, "mytardis_url")
    ELSE IF other = "exception"
    THEN SettingsValidation(FALSE, MsgTraceback, "")
    ELSE IF ~ValidateEmail(contact_email)
    THEN SettingsValidation(FALSE, MsgContactEmail, "contact_email")
    ELSE SettingsValidation(TRUE, "", "")

\* Validate, lines 226-497. A failed check assigns self.validation and
\* returns it; IncompatibleMyTardisVersion from the server checks is raised
\* again (488-490); with no failed check line 497 returns a new
\* SettingsValidation(True).
Validate ==
    \E other \in OtherChecks :
        LET check == FirstFailedCheck(other)
            raised == /\ other = "IncompatibleMyTardisVersion"
                      /\ Strip(instrument_name) # ""
                      /\ Strip(data_directory) # ""
                      /\ Strip(contact_email) # ""
        IN  /\ IF raised
               THEN /\ validateReturned' = NoResult
                    /\ UNCHANGED validation
               ELSE IF check.valid
               THEN /\ validateReturned' = check
                    /\ UNCHANGED validation
               ELSE /\ validation' = check
                    /\ validateReturned' = check
            /\ UNCHANGED <<validateRest, instrument_name, data_directory,
                           contact_email>>

\* Lines 509-510.
GetValidation == validation

NextValidate ==
    \/ \E instrumentName \in InstrumentNameTexts : SetInstrumentName(instrumentName)
    \/ \E dataDirectory \in DataDirectoryTexts : SetDataDirectory(dataDirectory)
    \/ \E contactEmail \in ContactEmailTexts : SetContactEmail(contactEmail)
    \/ Validate

SpecValidate == Init /\ [][NextValidate]_vars

\* C40: GetValidation() returns the result of the most recent Validate()
\* call: after any sequence of Validate() calls, if the last one returned a
\* valid result then GetValidation().GetValid() is true, and if it returned
\* an invalid result GetValidation() has the same field and message.
C40_GetValidationIsLastResult ==
    validateReturned # NoResult =>
        IF validateReturned.valid
        THEN GetValidation.valid
        ELSE /\ GetValidation.field = validateReturned.field
             /\ GetValidation.message = validateReturned.message
====
